---- MODULE Spec2Model ----
(***************************************************************************)
(* fireconf: reconciliation of Firestore composite indexes and TTL         *)
(* policies.  The module models                                            *)
(*   - the diff engine (internal/usecase/diff.go),                         *)
(*   - the reconciler Sync (internal/usecase/sync.go) running against an   *)
(*     abstract Firestore Admin service.                                   *)
(* A nil pointer is the empty sequence <<>>, a non-nil pointer the         *)
(* one-element sequence <<v>>.  The empty Go string is "".                 *)
(***************************************************************************)
EXTENDS Integers, Sequences, FiniteSets, TLC

VARIABLES
    args,             \* arguments of the pure function under check
    ret,              \* its result
    called,           \* name of the pure function that has been applied, "" before
    config,           \* *model.Config handed to Execute: sequence of collections
    sync,             \* the Sync value: [dryRun, async]
    remote,           \* state of the Firestore Admin service behind s.client
    task,             \* per collection of config: the goroutine started by g.Go
    log,              \* log[r][i]: calls issued by task i during the r-th Execute
    groupErr,         \* first error recorded by the errgroup of Execute, <<>> if none
    callerCancelled,  \* the caller's context has been cancelled
    faults,           \* number of remote calls that have failed so far
    result,           \* "idle", "running", or what Execute returned: "ok", "error"
    run,              \* number of the current Execute
    imp,              \* the run of Import.Execute: its position and what it has collected
    adm               \* the run of the adapter's EnableTTLPolicy and the field it updates

pureVars == <<args, ret, called, imp, adm>>

syncVars == <<config, sync, remote, task, log, groupErr, callerCancelled, faults, result, run>>

vars == <<args, ret, called, imp, adm,
          config, sync, remote, task, log, groupErr, callerCancelled, faults, result, run>>

\* Import.Execute has not been called
ImportIdle == [pc |-> "idle"]

\* no call of the adapter's EnableTTLPolicy is modelled
AdapterIdle == [pc |-> "idle"]

----------------------------------------------------------------------------
(* Bounds of the pure-function specifications *)
MaxDesired == 2
MaxObserved == 2

----------------------------------------------------------------------------
(* Generic helpers *)

Range(s) == {s[i] : i \in DOMAIN s}

SeqsUpTo(S, n) == UNION {[1..k -> S] : k \in 0..n}

\* All enumerations of a finite set without repetition: the orders in which
\* Go's `range` may visit the keys of a map.
MapIterations(S) ==
    {p \in [1..Cardinality(S) -> S] : \A i, j \in 1..Cardinality(S) : p[i] = p[j] => i = j}

RECURSIVE Join(_, _)
\* strings.Join(parts, sep)
Join(parts, sep) ==
    IF Len(parts) = 0 THEN ""
    ELSE IF Len(parts) = 1 THEN parts[1]
    ELSE parts[1] \o sep \o Join(Tail(parts), sep)

----------------------------------------------------------------------------
(* Data model: internal/model/index.go, pkg/domain/interfaces/firestore.go *)

NameField == "__name__"

\* model.IndexField
IndexField(name, order, array, vec) ==
    [Name |-> name, Order |-> order, ArrayConfig |-> array, VectorConfig |-> vec]

\* model.Index
Index(fields, scope) == [Fields |-> fields, QueryScope |-> scope]

\* interfaces.FirestoreIndexField
FirestoreIndexField(path, order, array, vec) ==
    [FieldPath |-> path, Order |-> order, ArrayConfig |-> array, VectorConfig |-> vec]

\* interfaces.FirestoreIndex
FirestoreIndex(name, fields, scope, state) ==
    [Name |-> name, Fields |-> fields, QueryScope |-> scope, State |-> state]

\* does a field list hold a vector field?
IsVectorIndexFields(fields) == \E i \in DOMAIN fields : fields[i].VectorConfig # <<>>

\* strings.ToUpper on the scope spellings that occur
ToUpper(s) ==
    CASE s = "collection" -> "COLLECTION"
      [] s = "collection_group" -> "COLLECTION_GROUP"
      [] OTHER -> s

\* (*Index).GetQueryScope
GetQueryScope(idx) ==
    IF idx.QueryScope = "" THEN "COLLECTION" ELSE ToUpper(idx.QueryScope)

----------------------------------------------------------------------------
(* Byte order of the field-key strings, for sort.Strings.  TLC has no      *)
(* order on strings, so the order is tabulated: every field key is        *)
(* path ":" discriminator, or "" for a field without a type.              *)

PathsInByteOrder == <<"__name__", "a", "b", "v">>

DiscriminatorsInByteOrder ==
    <<"ARRAY_CONTAINS", "ASCENDING", "DESCENDING", "VECTOR_1", "VECTOR_2">>

FieldKeysInByteOrder ==
    <<"">> \o
    [i \in 1..(Len(PathsInByteOrder) * Len(DiscriminatorsInByteOrder)) |->
        PathsInByteOrder[((i - 1) \div Len(DiscriminatorsInByteOrder)) + 1]
        \o ":" \o
        DiscriminatorsInByteOrder[((i - 1) % Len(DiscriminatorsInByteOrder)) + 1]]

StringRank(s) ==
    CHOOSE i \in 1..Len(FieldKeysInByteOrder) : FieldKeysInByteOrder[i] = s

\* s < t in Go's string order
StringLess(s, t) == StringRank(s) < StringRank(t)

RECURSIVE InsertSorted(_, _)
InsertSorted(s, sorted) ==
    IF Len(sorted) = 0 THEN <<s>>
    ELSE IF StringLess(s, sorted[1]) THEN <<s>> \o sorted
    ELSE <<sorted[1]>> \o InsertSorted(s, Tail(sorted))

RECURSIVE SortStrings(_)
\* sort.Strings
SortStrings(ss) ==
    IF Len(ss) = 0 THEN <<>>
    ELSE InsertSorted(ss[1], SortStrings(Tail(ss)))

----------------------------------------------------------------------------
(* Diff engine: internal/usecase/diff.go *)

\* the per-field key of getIndexKey (diff.go:77-84)
FieldKey(field) ==
    IF field.Order # "" THEN field.FieldPath \o ":" \o field.Order
    ELSE IF field.ArrayConfig # "" THEN field.FieldPath \o ":ARRAY_" \o field.ArrayConfig
    ELSE IF field.VectorConfig # <<>> THEN
        field.FieldPath \o ":VECTOR_" \o ToString(field.VectorConfig[1])
    ELSE ""

\* getIndexKey: scope, then the field keys sorted, joined by "|"
getIndexKey(idx) ==
    LET fieldKeys == [i \in 1..Len(idx.Fields) |-> FieldKey(idx.Fields[i])]
    IN  Join(<<idx.QueryScope>> \o SortStrings(fieldKeys), "|")

\* the per-field conversion of convertModelToFirestoreIndex (diff.go:102-118)
convertModelField(field) ==
    IF field.VectorConfig # <<>> THEN
        FirestoreIndexField(field.Name, "", "", field.VectorConfig)
    ELSE IF field.Order # "" THEN
        FirestoreIndexField(field.Name, field.Order, "", <<>>)
    ELSE IF field.ArrayConfig # "" THEN
        FirestoreIndexField(field.Name, "", field.ArrayConfig, <<>>)
    ELSE FirestoreIndexField(field.Name, "", "", <<>>)

\* convertModelToFirestoreIndex: Name and State are left empty
convertModelToFirestoreIndex(idx) ==
    FirestoreIndex("",
                   [i \in 1..Len(idx.Fields) |-> convertModelField(idx.Fields[i])],
                   GetQueryScope(idx),
                   "")

\* desiredMap of DiffIndexes: the last desired index of a key wins
DesiredMap(desired) ==
    LET keyOf(i) == getIndexKey(convertModelToFirestoreIndex(desired[i]))
        keys == {keyOf(i) : i \in DOMAIN desired}
        last(k) == CHOOSE i \in DOMAIN desired :
                       /\ keyOf(i) = k
                       /\ \A j \in DOMAIN desired : keyOf(j) = k => j <= i
    IN  [k \in keys |-> desired[last(k)]]

\* existingMap of DiffIndexes: the last existing index of a key wins
ExistingMap(existing) ==
    LET keys == {getIndexKey(existing[i]) : i \in DOMAIN existing}
        last(k) == CHOOSE i \in DOMAIN existing :
                       /\ getIndexKey(existing[i]) = k
                       /\ \A j \in DOMAIN existing : getIndexKey(existing[j]) = k => j <= i
    IN  [k \in keys |-> existing[last(k)]]

RECURSIVE CreateLoop(_, _, _)
\* the loop `for key, idx := range desiredMap` visiting the keys in order iter
CreateLoop(iter, desiredMap, existingMap) ==
    IF Len(iter) = 0 THEN <<>>
    ELSE (IF iter[1] \notin DOMAIN existingMap
          THEN <<convertModelToFirestoreIndex(desiredMap[iter[1]])>>
          ELSE <<>>)
         \o CreateLoop(Tail(iter), desiredMap, existingMap)

\* DiffIndexes with the create loop running over the desired slice instead of
\* desiredMap, so that two desired indexes of one key are both created
DiffIndexesOverSlice(desired, existing, iter) ==
    LET desiredMap == DesiredMap(desired)
        existingMap == ExistingMap(existing)
        notDesired(idx) == getIndexKey(idx) \notin DOMAIN desiredMap
        missing(d) == getIndexKey(convertModelToFirestoreIndex(d)) \notin DOMAIN existingMap
        picked == SelectSeq(desired, missing)
    IN  [toCreate |-> [i \in 1..Len(picked) |-> convertModelToFirestoreIndex(picked[i])],
         toDelete |-> SelectSeq(existing, notDesired)]

\* DiffIndexes; iter is the order in which `range desiredMap` visits the keys
DiffIndexes(desired, existing, iter) ==
    LET desiredMap == DesiredMap(desired)
        existingMap == ExistingMap(existing)
        notDesired(idx) == getIndexKey(idx) \notin DOMAIN desiredMap
    IN  [toCreate |-> CreateLoop(iter, desiredMap, existingMap),
         toDelete |-> SelectSeq(existing, notDesired)]

\* the visiting orders Go may choose for desiredMap
DesiredMapIterations(desired) == MapIterations(DOMAIN DesiredMap(desired))

\* DiffTTL taking only ACTIVE, not CREATING, as a present policy
DiffTTLActiveOnly(desired, existing) ==
    IF desired = <<>> THEN
        IF existing # <<>> /\ existing[1].State = "ACTIVE"
        THEN <<TRUE, "disable">>
        ELSE <<FALSE, "">>
    ELSE IF existing = <<>> \/ existing[1].State # "ACTIVE"
    THEN <<TRUE, "enable">>
    ELSE IF existing[1].FieldPath # desired[1].Field
    THEN <<TRUE, "change">>
    ELSE <<FALSE, "">>

\* DiffTTL; desired is a *model.TTL, existing a *interfaces.FirestoreTTL
DiffTTL(desired, existing) ==
    IF desired = <<>> THEN
        IF existing # <<>> /\ (existing[1].State = "ACTIVE" \/ existing[1].State = "CREATING")
        THEN <<TRUE, "disable">>
        ELSE <<FALSE, "">>
    ELSE IF existing = <<>> \/ (existing[1].State # "ACTIVE" /\ existing[1].State # "CREATING")
    THEN <<TRUE, "enable">>
    ELSE IF existing[1].FieldPath # desired[1].Field
    THEN <<TRUE, "change">>
    ELSE <<FALSE, "">>

----------------------------------------------------------------------------
(* Inputs of the diff specifications *)

Asc(p) == IndexField(p, "ASCENDING", "", <<>>)
Desc(p) == IndexField(p, "DESCENDING", "", <<>>)
Vec(p, d) == IndexField(p, "", "", <<d>>)
FAsc(p) == FirestoreIndexField(p, "ASCENDING", "", <<>>)
FDesc(p) == FirestoreIndexField(p, "DESCENDING", "", <<>>)
FVec(p, d) == FirestoreIndexField(p, "", "", <<d>>)

DesiredUniverse ==
    { Index(<<Asc("a"), Desc("b")>>, "COLLECTION"),
      Index(<<Desc("b"), Asc("a")>>, "COLLECTION"),
      Index(<<Asc("a")>>, "COLLECTION_GROUP"),
      Index(<<Asc("a"), Vec("v", 2)>>, "COLLECTION"),
      Index(<<IndexField("a", "", "", <<>>)>>, ""),
      Index(<<IndexField("b", "", "CONTAINS", <<>>), Asc("a")>>, "COLLECTION") }

ObservedUniverse ==
    { FirestoreIndex("idx1", <<FAsc("a"), FDesc("b")>>, "COLLECTION", "READY"),
      FirestoreIndex("idx2", <<FDesc("b"), FAsc("a")>>, "COLLECTION", "CREATING"),
      FirestoreIndex("idx3", <<FAsc("a"), FDesc("b"), FAsc(NameField)>>, "COLLECTION", "READY"),
      FirestoreIndex("idx4", <<FAsc("a"), FVec("v", 2)>>, "COLLECTION_GROUP", "READY"),
      FirestoreIndex("idx5", <<FAsc("a")>>, "COLLECTION", "ERROR"),
      FirestoreIndex("idx6", <<FAsc("a"), FDesc("b")>>, "COLLECTION", "NEEDS_REPAIR") }

TTLFields == {"expireAt", "deletedAt", "createdAt"}
TTLStates == {"ACTIVE", "CREATING", "INACTIVE", "NEEDS_REPAIR", "STATE_UNSPECIFIED"}

DesiredTTLs == {<<>>} \cup {<<[Field |-> f]>> : f \in TTLFields}
ObservedTTLs == {<<>>} \cup {<<[FieldPath |-> f, State |-> s]>> : f \in TTLFields, s \in TTLStates}

----------------------------------------------------------------------------
(* Specification SpecDiff: DiffIndexes applied to bounded inputs *)


\* the reconciler is not running in the pure-function specifications
SyncIdle ==
    /\ config = <<>>
    /\ sync = [dryRun |-> FALSE, async |-> FALSE]
    /\ remote = <<>>
    /\ task = <<>>
    /\ log = <<>>
    /\ groupErr = <<>>
    /\ callerCancelled = FALSE
    /\ faults = 0
    /\ result = "idle"
    /\ run = 0
    /\ imp = ImportIdle
    /\ adm = AdapterIdle

InitDiff ==
    /\ SyncIdle
    /\ args \in [desired : SeqsUpTo(DesiredUniverse, MaxDesired),
                 existing : SeqsUpTo(ObservedUniverse, MaxObserved)]
    /\ ret = <<>>
    /\ called = ""

CallDiffIndexes ==
    /\ called = ""
    /\ \E iter \in DesiredMapIterations(args.desired) :
           ret' = DiffIndexes(args.desired, args.existing, iter)
    /\ called' = "DiffIndexes"
    /\ UNCHANGED <<args, imp, adm, syncVars>>

NextDiff == CallDiffIndexes

SpecDiff == InitDiff /\ [][NextDiff]_vars

(* Specification SpecTTL: DiffTTL applied to every combination *)

InitTTL ==
    /\ SyncIdle
    /\ args \in [desired : DesiredTTLs, existing : ObservedTTLs]
    /\ ret = <<>>
    /\ called = ""

CallDiffTTL ==
    /\ called = ""
    /\ ret' = DiffTTL(args.desired, args.existing)
    /\ called' = "DiffTTL"
    /\ UNCHANGED <<args, imp, adm, syncVars>>

NextTTL == CallDiffTTL

SpecTTL == InitTTL /\ [][NextTTL]_vars

----------------------------------------------------------------------------
(* Properties of the diff engine *)

DesiredKeys(desired) ==
    {getIndexKey(convertModelToFirestoreIndex(desired[i])) : i \in DOMAIN desired}

ObservedKeys(existing) == {getIndexKey(existing[i]) : i \in DOMAIN existing}

DiffCalled == called = "DiffIndexes"

\* C1: DiffIndexes returns as toCreate exactly the desired indexes whose key
\* equals no observed key, one entry per distinct key, and as toDelete exactly
\* the observed indexes whose key equals no desired key; an index whose key
\* occurs on both sides is in neither list, whatever its name or state.
TheoremC1 ==
    DiffCalled =>
        LET dk == DesiredKeys(args.desired)
            ok == ObservedKeys(args.existing)
            onlyObserved(idx) == getIndexKey(idx) \notin dk
        IN  /\ \A i \in DOMAIN ret.toCreate :
                 /\ getIndexKey(ret.toCreate[i]) \in dk \ ok
                 /\ \E j \in DOMAIN args.desired :
                        ret.toCreate[i] = convertModelToFirestoreIndex(args.desired[j])
            /\ \A k \in dk \ ok :
                 Cardinality({i \in DOMAIN ret.toCreate : getIndexKey(ret.toCreate[i]) = k}) = 1
            /\ Len(ret.toCreate) = Cardinality(dk \ ok)
            /\ ret.toDelete = SelectSeq(args.existing, onlyObserved)
            /\ \A i \in DOMAIN ret.toDelete : getIndexKey(ret.toDelete[i]) \notin dk \cap ok

\* C1 witness: a diff with a matched key, one create and one delete
WitnessC1 ==
    /\ DiffCalled
    /\ DesiredKeys(args.desired) \cap ObservedKeys(args.existing) # {}
    /\ Len(ret.toCreate) = 1
    /\ Len(ret.toDelete) = 1

Reverse(s) == [i \in 1..Len(s) |-> s[Len(s) + 1 - i]]

FieldPaths(idx) == [i \in 1..Len(idx.Fields) |-> idx.Fields[i].FieldPath]

IsVectorIndex(idx) == \E i \in DOMAIN idx.Fields : idx.Fields[i].VectorConfig # <<>>

\* one desired index against one observed index
OneToOne == DiffCalled /\ Len(args.desired) = 1 /\ Len(args.existing) = 1

\* C2: a desired index on (A,B) and an observed index on (B,A), same scope
\* and field types, are never equal: exactly one create, with the fields in
\* the desired order, and exactly one delete, the observed index.
CounterexampleC2 ==
    (/\ OneToOne
     /\ Len(args.desired[1].Fields) = 2
     /\ args.existing[1].QueryScope = convertModelToFirestoreIndex(args.desired[1]).QueryScope
     /\ args.existing[1].Fields = Reverse(convertModelToFirestoreIndex(args.desired[1]).Fields)
     /\ args.existing[1].Fields # convertModelToFirestoreIndex(args.desired[1]).Fields)
    => /\ Len(ret.toCreate) = 1
       /\ ret.toCreate[1].Fields = convertModelToFirestoreIndex(args.desired[1]).Fields
       /\ ret.toDelete = args.existing

\* C3: a non-vector desired index and an observed index identical to it but
\* for one appended trailing __name__ field give no create and no delete.
CounterexampleC3 ==
    (/\ OneToOne
     /\ ~IsVectorIndex(convertModelToFirestoreIndex(args.desired[1]))
     /\ args.existing[1].QueryScope = convertModelToFirestoreIndex(args.desired[1]).QueryScope
     /\ args.existing[1].Fields =
            Append(convertModelToFirestoreIndex(args.desired[1]).Fields, FAsc(NameField)))
    => /\ ret.toCreate = <<>>
       /\ ret.toDelete = <<>>

\* C4: a desired vector index with scope COLLECTION and an observed index with
\* the same fields reported with scope COLLECTION_GROUP give no create and no
\* delete.
CounterexampleC4 ==
    (/\ OneToOne
     /\ IsVectorIndex(convertModelToFirestoreIndex(args.desired[1]))
     /\ convertModelToFirestoreIndex(args.desired[1]).QueryScope = "COLLECTION"
     /\ args.existing[1].QueryScope = "COLLECTION_GROUP"
     /\ args.existing[1].Fields = convertModelToFirestoreIndex(args.desired[1]).Fields)
    => /\ ret.toCreate = <<>>
       /\ ret.toDelete = <<>>

TTLPresent(existing) ==
    existing # <<>> /\ existing[1].State \in {"ACTIVE", "CREATING"}

\* C5: the TTL decision table.  No desired TTL and observed ACTIVE/CREATING:
\* (true, disable); desired and observed absent or not ACTIVE/CREATING:
\* (true, enable); desired and observed ACTIVE/CREATING on another field:
\* (true, change); desired and observed ACTIVE/CREATING on the same field, or
\* no desired and observed absent or inactive: (false, no action).
TheoremC5 ==
    called = "DiffTTL" =>
        /\ (args.desired = <<>> /\ TTLPresent(args.existing)) => ret = <<TRUE, "disable">>
        /\ (args.desired = <<>> /\ ~TTLPresent(args.existing)) => ret = <<FALSE, "">>
        /\ (args.desired # <<>> /\ ~TTLPresent(args.existing)) => ret = <<TRUE, "enable">>
        /\ (args.desired # <<>> /\ TTLPresent(args.existing)) =>
               IF args.existing[1].FieldPath = args.desired[1].Field
               THEN ret = <<FALSE, "">>
               ELSE ret = <<TRUE, "change">>

\* C5 witness: a CREATING policy on another field than the desired one
WitnessC5 ==
    /\ called = "DiffTTL"
    /\ args.desired # <<>>
    /\ args.existing # <<>>
    /\ args.existing[1].State = "CREATING"
    /\ args.existing[1].FieldPath # args.desired[1].Field
    /\ ret = <<TRUE, "change">>

----------------------------------------------------------------------------
(* Validation: internal/model/index.go, internal/model/ttl.go,             *)
(* pkg/domain/model/config.go.  The result is the error message, "" for   *)
(* nil.  Validate works on copies of the range variables, so the defaults *)
(* it assigns (scope COLLECTION, order ASCENDING) do not reach the caller.*)

\* (*IndexField).Validate without its check of the combinations
IndexFieldValidateAnyCombination(f) ==
    LET order == IF f.Order = "" /\ f.ArrayConfig = "" /\ f.VectorConfig = <<>>
                 THEN "ASCENDING" ELSE f.Order
    IN  IF f.Name = "" THEN "field name is required"
        ELSE IF order # "" /\ order # "ASCENDING" /\ order # "DESCENDING"
        THEN "invalid order"
        ELSE IF f.ArrayConfig # "" /\ f.ArrayConfig # "CONTAINS"
        THEN "invalid array_config"
        ELSE IF f.VectorConfig # <<>> /\ f.VectorConfig[1] <= 0
        THEN "vector dimension must be positive"
        ELSE ""

\* (*IndexField).Validate
IndexFieldValidate(f) ==
    LET hasOrder == f.Order # ""
        hasArrayConfig == f.ArrayConfig # ""
        hasVectorConfig == f.VectorConfig # <<>>
        order == IF ~hasOrder /\ ~hasArrayConfig /\ ~hasVectorConfig
                 THEN "ASCENDING" ELSE f.Order
    IN  IF f.Name = "" THEN "field name is required"
        ELSE IF hasArrayConfig /\ (hasOrder \/ hasVectorConfig)
        THEN "array_config cannot be combined with order or vector_config"
        ELSE IF order # "" /\ order # "ASCENDING" /\ order # "DESCENDING"
        THEN "invalid order"
        ELSE IF f.ArrayConfig # "" /\ f.ArrayConfig # "CONTAINS"
        THEN "invalid array_config"
        ELSE IF f.VectorConfig # <<>> /\ f.VectorConfig[1] <= 0
        THEN "vector dimension must be positive"
        ELSE ""

\* (*Index).Validate
IndexValidate(idx) ==
    IF Len(idx.Fields) = 0 THEN "index must have at least one field"
    ELSE IF idx.QueryScope # "" /\ idx.QueryScope # "COLLECTION"
            /\ idx.QueryScope # "COLLECTION_GROUP"
    THEN "invalid queryScope"
    ELSE IF \E i \in DOMAIN idx.Fields : IndexFieldValidate(idx.Fields[i]) # ""
    THEN LET first == CHOOSE i \in DOMAIN idx.Fields :
                          /\ IndexFieldValidate(idx.Fields[i]) # ""
                          /\ \A j \in 1..(i - 1) : IndexFieldValidate(idx.Fields[j]) = ""
         IN  IndexFieldValidate(idx.Fields[first])
    ELSE ""

\* (*TTL).Validate
TTLValidate(t) == IF t.Field = "" THEN "TTL field name is required" ELSE ""

\* (*Collection).Validate
CollectionValidate(c) ==
    IF c.Name = "" THEN "collection name is required"
    ELSE IF \E i \in DOMAIN c.Indexes : IndexValidate(c.Indexes[i]) # ""
    THEN LET first == CHOOSE i \in DOMAIN c.Indexes :
                          /\ IndexValidate(c.Indexes[i]) # ""
                          /\ \A j \in 1..(i - 1) : IndexValidate(c.Indexes[j]) = ""
         IN  IndexValidate(c.Indexes[first])
    ELSE IF c.TTL # <<>> THEN TTLValidate(c.TTL[1])
    ELSE ""

\* model.Collection
Collection(name, indexes, ttl) == [Name |-> name, Indexes |-> indexes, TTL |-> ttl]

----------------------------------------------------------------------------
(* The Firestore Admin service as the adapter presents it                  *)
(* (internal/adapter/firestore).  remote is                                *)
(*   [collections : set of existing collection names,                      *)
(*    indexes     : collection name -> sequence of FirestoreIndex,         *)
(*    ttl         : collection name -> (field -> TTL state, "" for none),  *)
(*    nextId      : number of the next index name].                        *)

CollectionNames == {"users", "posts"}

SyncTTLFields == {"expireAt", "deletedAt"}

\* the index as the service identifies it: a trailing __name__ of a
\* non-vector index and the scope of a vector index do not count
ServiceIdentity(idx) ==
    LET n == Len(idx.Fields)
        fields == IF ~IsVectorIndexFields(idx.Fields) /\ n > 0
                     /\ idx.Fields[n].FieldPath = NameField
                  THEN SubSeq(idx.Fields, 1, n - 1) ELSE idx.Fields
        scope == IF IsVectorIndexFields(idx.Fields) THEN "COLLECTION" ELSE idx.QueryScope
    IN  <<scope, fields>>

\* the forms in which the service may report an index it was asked to create:
\* it may append __name__ to a non-vector index and may report a vector index
\* of scope COLLECTION as COLLECTION_GROUP
StoredForms(idx) ==
    LET n == Len(idx.Fields)
        fieldForms ==
            IF ~IsVectorIndexFields(idx.Fields) /\ n > 0
               /\ idx.Fields[n].FieldPath # NameField
            THEN {idx.Fields, Append(idx.Fields, FAsc(NameField))}
            ELSE {idx.Fields}
        scopeForms ==
            IF IsVectorIndexFields(idx.Fields) /\ idx.QueryScope = "COLLECTION"
            THEN {"COLLECTION", "COLLECTION_GROUP"}
            ELSE {idx.QueryScope}
    IN  {[Fields |-> f, QueryScope |-> sc] : f \in fieldForms, sc \in scopeForms}

IndexName(coll, n) == coll \o "/indexes/" \o ToString(n)

\* Client.ListIndexes
ListIndexes(r, coll) == r.indexes[coll]

\* does admin.CreateIndex answer AlreadyExists?
AlreadyExists(r, coll, idx) ==
    \E k \in DOMAIN r.indexes[coll] :
        ServiceIdentity(r.indexes[coll][k]) = ServiceIdentity(idx)

\* Client.CreateIndex that creates the index again when admin.CreateIndex
\* answers AlreadyExists
CreateIndexAgain(r, coll, idx, form) ==
    [r EXCEPT
        !.indexes[coll] = Append(@, FirestoreIndex(IndexName(coll, r.nextId),
                                                   form.Fields, form.QueryScope,
                                                   "CREATING")),
        !.nextId = @ + 1]

\* what Client.CreateIndex returns with a nil error: the resource name of the
\* new index, and the zero value when admin.CreateIndex answers AlreadyExists
CreateIndexResult(r, coll, idx) ==
    IF AlreadyExists(r, coll, idx) THEN "" ELSE IndexName(coll, r.nextId)

\* Client.CreateIndex when the call succeeds; form is the stored form
CreateIndex(r, coll, idx, form) ==
    IF AlreadyExists(r, coll, idx) THEN r
    ELSE [r EXCEPT
            !.indexes[coll] = Append(@, FirestoreIndex(IndexName(coll, r.nextId),
                                                       form.Fields, form.QueryScope,
                                                       "CREATING")),
            !.nextId = @ + 1]

\* Client.DeleteIndex when the call succeeds: NotFound counts as success
DeleteIndex(r, indexName) ==
    LET keep(idx) == idx.Name # indexName
    IN  [r EXCEPT !.indexes = [c \in DOMAIN r.indexes |-> SelectSeq(r.indexes[c], keep)]]

\* the status of admin.DeleteIndex that Client.DeleteIndex turns into a nil
\* error
DeleteIndexStatus(r, indexName) ==
    IF \E c \in DOMAIN r.indexes : \E k \in DOMAIN r.indexes[c] :
          r.indexes[c][k].Name = indexName
    THEN "OK" ELSE "NotFound"

\* Client.CollectionExists
CollectionExists(r, coll) == coll \in r.collections

\* Client.CreateCollection
CreateCollection(r, coll) == [r EXCEPT !.collections = @ \cup {coll}]

\* Client.GetTTLPolicy: the policy of the one field asked for
GetTTLPolicy(r, coll, field) ==
    IF r.ttl[coll][field] # ""
    THEN <<[FieldPath |-> field, State |-> r.ttl[coll][field]]>>
    ELSE <<>>

\* Client.findTTLField: the fields it may return, "" when none is ACTIVE or
\* CREATING
FindTTLField(r, coll) ==
    LET enabled == {f \in DOMAIN r.ttl[coll] : r.ttl[coll][f] \in {"ACTIVE", "CREATING"}}
    IN  IF enabled = {} THEN {""} ELSE enabled

\* Client.EnableTTLPolicy when the call succeeds
EnableTTLPolicy(r, coll, field) == [r EXCEPT !.ttl[coll][field] = "CREATING"]

\* Client.DisableTTLPolicy when the call succeeds; found is findTTLField's answer
DisableTTLPolicy(r, coll, found) ==
    IF found = "" THEN r ELSE [r EXCEPT !.ttl[coll][found] = ""]

----------------------------------------------------------------------------
(* The reconciler: internal/usecase/sync.go *)

CollectionSemaphore == 10
IndexSemaphore == 5
InitialBackoff == 1
MaxBackoff == 10

(* Bounds of the reconciler specification *)
MaxFaults == 1
MaxPolls == 2
MaxRuns == 2

Tasks == DOMAIN config

\* a context of Execute that the errgroup does not cancel
CtxDoneCallerOnly == callerCancelled

\* ctx of Execute: the errgroup context, derived from the caller's context
CtxDone == callerCancelled \/ groupErr # <<>>

\* ctx of createIndexesConcurrently: derived from the ctx of Execute
InnerCtxDone(i) == CtxDone \/ task[i].innerErr # <<>>

\* errors, by their cause; index is the goerr value "index"
ErrContext == [msg |-> "context canceled", index |-> ""]
ErrRemote(call) == [msg |-> call \o " failed", index |-> ""]
ErrValidation(m) == [msg |-> m, index |-> ""]
ErrIndexState(name) == [msg |-> "index entered ERROR state", index |-> name]

\* how a remote call issued under a context may end: it succeeds, the
\* service fails it, or it fails because the context is done
Outcomes(done) ==
    {"ok"} \cup (IF faults < MaxFaults THEN {"fault"} ELSE {})
           \cup (IF done THEN {"ctx"} ELSE {})

\* waitForOperationWithProgress without the ctx.Done() case of its select
OperationOutcomesWithoutContext(done) == Outcomes(FALSE)

\* how waitForOperationWithProgress may end, sync.go:517-527: its select is
\* woken by the event that comes first, the end of the operation wait or
\* ctx.Done(), so under a context that is done it returns ctx.Err()
OperationOutcomes(done) == IF done THEN {"ctx"} ELSE Outcomes(FALSE)

OutcomeError(o, call) == IF o = "ctx" THEN ErrContext ELSE ErrRemote(call)

FaultCount(o) == IF o = "fault" THEN 1 ELSE 0

\* an entry of the call log
Event(at, call, arg, res, ok) == [at |-> at, call |-> call, arg |-> arg, res |-> res, ok |-> ok]

NewTask ==
    [pc |-> "queued", toCreate |-> <<>>, toDelete |-> <<>>, sub |-> <<>>,
     innerErr |-> <<>>, backoff |-> InitialBackoff, polls |-> 0,
     after |-> "", err |-> <<>>]

\* the goroutine returns err
Failed(t, e) == [t EXCEPT !.pc = "failed", !.err = <<e>>]

\* Advance with a syncIndexes that goes to the creations without running its
\* delete loop
AdvanceWithoutDeleteLoop(t, c) ==
    LET t1 == IF t.pc = "delete" THEN [t EXCEPT !.pc = "create"] ELSE t
        t2 == IF t1.pc = "create" /\ Len(t1.toCreate) = 0 THEN [t1 EXCEPT !.pc = "wait"]
              ELSE IF t1.pc = "create" /\ t1.sub = <<>>
              THEN [t1 EXCEPT !.sub = [k \in 1..Len(t1.toCreate) |-> "queued"]]
              ELSE t1
    IN  IF t2.pc = "wait"
        THEN IF sync.async \/ sync.dryRun \/ Len(c.Indexes) = 0
             THEN [t2 EXCEPT !.pc = "ttl"]
             ELSE [t2 EXCEPT !.pc = "waitList"]
        ELSE t2

\* Advance with a syncIndexes that does not call waitForIndexesReady
AdvanceWithoutWait(t, c) ==
    LET t1 == IF t.pc = "delete" /\ t.toDelete = <<>> THEN [t EXCEPT !.pc = "create"] ELSE t
        t2 == IF t1.pc = "create" /\ Len(t1.toCreate) = 0 THEN [t1 EXCEPT !.pc = "wait"]
              ELSE IF t1.pc = "create" /\ t1.sub = <<>>
              THEN [t1 EXCEPT !.sub = [k \in 1..Len(t1.toCreate) |-> "queued"]]
              ELSE t1
    IN  IF t2.pc = "wait" THEN [t2 EXCEPT !.pc = "ttl"] ELSE t2

\* Advance with a waitForIndexesReady that polls in async mode too
AdvanceWaitsInAsync(t, c) ==
    LET t1 == IF t.pc = "delete" /\ t.toDelete = <<>> THEN [t EXCEPT !.pc = "create"] ELSE t
        t2 == IF t1.pc = "create" /\ Len(t1.toCreate) = 0 THEN [t1 EXCEPT !.pc = "wait"]
              ELSE IF t1.pc = "create" /\ t1.sub = <<>>
              THEN [t1 EXCEPT !.sub = [k \in 1..Len(t1.toCreate) |-> "queued"]]
              ELSE t1
    IN  IF t2.pc = "wait"
        THEN IF sync.dryRun \/ Len(c.Indexes) = 0
             THEN [t2 EXCEPT !.pc = "ttl"]
             ELSE [t2 EXCEPT !.pc = "waitList"]
        ELSE t2

\* control passes over the loops and branches that have nothing to do:
\* an empty toDelete, an empty toCreate, and the early return of
\* waitForIndexesReady
Advance(t, c) ==
    LET t1 == IF t.pc = "delete" /\ t.toDelete = <<>> THEN [t EXCEPT !.pc = "create"] ELSE t
        t2 == IF t1.pc = "create" /\ Len(t1.toCreate) = 0 THEN [t1 EXCEPT !.pc = "wait"]
              ELSE IF t1.pc = "create" /\ t1.sub = <<>>
              THEN [t1 EXCEPT !.sub = [k \in 1..Len(t1.toCreate) |-> "queued"]]
              ELSE t1
    IN  IF t2.pc = "wait"
        THEN IF sync.async \/ sync.dryRun \/ Len(c.Indexes) = 0
             THEN [t2 EXCEPT !.pc = "ttl"]
             ELSE [t2 EXCEPT !.pc = "waitList"]
        ELSE t2

\* the calls of the current run are recorded: log has a record for the run
Recorded == run \in DOMAIN log

\* one step of task i: its new local state, the new remote state, the calls
\* logged and the number of failed calls; a returned error goes to the errgroup
Step(i, t, r, events, failed) ==
    /\ task' = [task EXCEPT ![i] = t]
    /\ remote' = r
    /\ log' = IF Recorded THEN [log EXCEPT ![run][i] = @ \o events] ELSE log
    /\ faults' = faults + failed
    /\ groupErr' = IF t.pc = "failed" /\ groupErr = <<>> THEN t.err ELSE groupErr
    /\ UNCHANGED <<config, sync, callerCancelled, result, run, pureVars>>

Running(i) == result = "running" /\ i \in Tasks

\* a semaphore whose slots are never given back
HoldingForever == {i \in Tasks : task[i].pc # "queued"}

\* tasks between `sem <- struct{}{}` and `<-sem`
Holding == {i \in Tasks : task[i].pc \notin {"queued", "done", "failed"}}

\* Acquire on a channel without capacity limit
AcquireUnbounded(i) ==
    /\ Running(i)
    /\ task[i].pc = "queued"
    /\ Step(i, [task[i] EXCEPT !.pc = "validate"], remote, <<>>, 0)

\* Execute, sync.go:63: acquire the collection semaphore
Acquire(i) ==
    /\ Running(i)
    /\ task[i].pc = "queued"
    /\ Cardinality(Holding) < CollectionSemaphore
    /\ Step(i, [task[i] EXCEPT !.pc = "validate"], remote, <<>>, 0)

\* Execute without the validation of the collection
ValidateNothing(i) ==
    /\ Running(i)
    /\ task[i].pc = "validate"
    /\ Step(i, [task[i] EXCEPT !.pc = "ensure"], remote, <<>>, 0)

\* Execute, sync.go:69-71
Validate(i) ==
    /\ Running(i)
    /\ task[i].pc = "validate"
    /\ LET msg == CollectionValidate(config[i])
       IN  Step(i, IF msg # "" THEN Failed(task[i], ErrValidation(msg))
                   ELSE [task[i] EXCEPT !.pc = "ensure"],
                remote, <<>>, 0)

\* ensureCollectionExists without the dry-run return
EnsureCollectionExistsInDryRun(i) ==
    /\ Running(i)
    /\ task[i].pc = "ensure"
    /\ \E o \in Outcomes(CtxDone) :
         LET exists == CollectionExists(remote, config[i].Name)
             ev == Event("ensure", "CollectionExists", config[i].Name, <<exists>>, o = "ok")
         IN  Step(i,
                  IF o # "ok" THEN Failed(task[i], OutcomeError(o, "CollectionExists"))
                  ELSE [task[i] EXCEPT !.pc = IF exists THEN "list" ELSE "createCollection"],
                  remote, <<ev>>, FaultCount(o))

\* ensureCollectionExists up to CollectionExists, sync.go:532-543
EnsureCollectionExists(i) ==
    /\ Running(i)
    /\ task[i].pc = "ensure"
    /\ IF sync.dryRun
       THEN Step(i, [task[i] EXCEPT !.pc = "list"], remote, <<>>, 0)
       ELSE \E o \in Outcomes(CtxDone) :
              LET exists == CollectionExists(remote, config[i].Name)
                  ev == Event("ensure", "CollectionExists", config[i].Name, <<exists>>, o = "ok")
              IN  Step(i,
                       IF o # "ok" THEN Failed(task[i], OutcomeError(o, "CollectionExists"))
                       ELSE [task[i] EXCEPT !.pc = IF exists THEN "list" ELSE "createCollection"],
                       remote, <<ev>>, FaultCount(o))

\* ensureCollectionExists, sync.go:543-548
EnsureCreateCollection(i) ==
    /\ Running(i)
    /\ task[i].pc = "createCollection"
    /\ \E o \in Outcomes(CtxDone) :
         LET ev == Event("createCollection", "CreateCollection", config[i].Name, <<>>, o = "ok")
         IN  Step(i,
                  IF o # "ok" THEN Failed(task[i], OutcomeError(o, "CreateCollection"))
                  ELSE [task[i] EXCEPT !.pc = "list"],
                  IF o = "ok" THEN CreateCollection(remote, config[i].Name) ELSE remote,
                  <<ev>>, FaultCount(o))

\* syncIndexes, sync.go:105-122: list the existing indexes and compute the diff
SyncIndexesList(i) ==
    /\ Running(i)
    /\ task[i].pc = "list"
    /\ \E o \in Outcomes(CtxDone) :
         LET existing == ListIndexes(remote, config[i].Name)
             ev == Event("list", "ListIndexes", config[i].Name,
                         IF o = "ok" THEN existing ELSE <<>>, o = "ok")
         IN  IF o # "ok"
             THEN Step(i, Failed(task[i], OutcomeError(o, "ListIndexes")),
                       remote, <<ev>>, FaultCount(o))
             ELSE \E iter \in DesiredMapIterations(config[i].Indexes) :
                    LET d == DiffIndexes(config[i].Indexes, existing, iter)
                    IN  Step(i,
                             Advance([task[i] EXCEPT !.pc = "delete",
                                                     !.toCreate = d.toCreate,
                                                     !.toDelete = d.toDelete],
                                     config[i]),
                             remote, <<ev>>, 0)

\* syncIndexes, sync.go:171-204: one round of the delete loop.  The adapter's
\* DeleteIndex returns no operation, so there is nothing to wait for.
SyncIndexesDelete(i) ==
    /\ Running(i)
    /\ task[i].pc = "delete"
    /\ LET idx == Head(task[i].toDelete)
           rest == [task[i] EXCEPT !.toDelete = Tail(@)]
       IN  IF sync.dryRun
           THEN Step(i, Advance(rest, config[i]), remote,
                     <<Event("delete", "Would delete index", idx.Name, <<>>, TRUE)>>, 0)
           ELSE \E o \in Outcomes(CtxDone) :
                  LET ev == Event("delete", "DeleteIndex", idx.Name,
                                  IF o = "ok" THEN <<DeleteIndexStatus(remote, idx.Name)>>
                                  ELSE <<>>,
                                  o = "ok")
                  IN  Step(i,
                           IF o # "ok" THEN Failed(task[i], OutcomeError(o, "DeleteIndex"))
                           ELSE Advance(rest, config[i]),
                           IF o = "ok" THEN DeleteIndex(remote, idx.Name) ELSE remote,
                           <<ev>>, FaultCount(o))

\* sub-goroutines of createIndexesConcurrently holding its semaphore
SubHolding(i) == {k \in DOMAIN task[i].sub : task[i].sub[k] \in {"acquired", "opwait"}}

\* createIndexesConcurrently, sync.go:236
CreateAcquire(i, k) ==
    /\ Running(i)
    /\ task[i].pc = "create"
    /\ k \in DOMAIN task[i].sub
    /\ task[i].sub[k] = "queued"
    /\ Cardinality(SubHolding(i)) < IndexSemaphore
    /\ Step(i, [task[i] EXCEPT !.sub[k] = "acquired"], remote, <<>>, 0)

\* a sub-goroutine that calls CreateIndex again after an error
SubFailedRetried(t, k, e) == [t EXCEPT !.sub[k] = "acquired"]

\* the sub-goroutine returns err: the inner errgroup keeps the first one
SubFailed(t, k, e) ==
    [t EXCEPT !.sub[k] = "failed",
              !.innerErr = IF @ = <<>> THEN <<e>> ELSE @]

\* createIndexesConcurrently, sync.go:239-257: the CreateIndex call
CreateCall(i, k) ==
    /\ Running(i)
    /\ task[i].pc = "create"
    /\ k \in DOMAIN task[i].sub
    /\ task[i].sub[k] = "acquired"
    /\ LET idx == task[i].toCreate[k]
           coll == config[i].Name
       IN  IF sync.dryRun
           THEN Step(i, [task[i] EXCEPT !.sub[k] = "done"], remote,
                     <<Event("create", "Would create index", idx, <<>>, TRUE)>>, 0)
           ELSE \E o \in Outcomes(InnerCtxDone(i)) :
                  LET created == CreateIndexResult(remote, coll, idx)
                      ev == Event("create", "CreateIndex", idx,
                                  IF o = "ok" THEN <<created>> ELSE <<>>, o = "ok")
                      op == created # ""
                  IN  IF o # "ok"
                      THEN Step(i, SubFailed(task[i], k, OutcomeError(o, "CreateIndex")),
                                remote, <<ev>>, FaultCount(o))
                      ELSE \E form \in StoredForms(idx) :
                             Step(i,
                                  [task[i] EXCEPT !.sub[k] =
                                      IF ~sync.async /\ op THEN "opwait" ELSE "done"],
                                  CreateIndex(remote, coll, idx, form), <<ev>>, 0)

\* createIndexesConcurrently, sync.go:259-276 with waitForOperationWithProgress
CreateWaitForOperation(i, k) ==
    /\ Running(i)
    /\ task[i].pc = "create"
    /\ k \in DOMAIN task[i].sub
    /\ task[i].sub[k] = "opwait"
    /\ \E o \in OperationOutcomes(InnerCtxDone(i)) :
         LET ev == Event("create", "WaitForOperation", task[i].toCreate[k], <<>>, o = "ok")
         IN  Step(i,
                  IF o # "ok" THEN SubFailed(task[i], k, OutcomeError(o, "WaitForOperation"))
                  ELSE [task[i] EXCEPT !.sub[k] = "done"],
                  remote, <<ev>>, FaultCount(o))

\* createIndexesConcurrently, sync.go:282: g.Wait()
CreateJoin(i) ==
    /\ Running(i)
    /\ task[i].pc = "create"
    /\ \A k \in DOMAIN task[i].sub : task[i].sub[k] \in {"done", "failed"}
    /\ Step(i,
            IF task[i].innerErr # <<>> THEN Failed(task[i], task[i].innerErr[1])
            ELSE Advance([task[i] EXCEPT !.pc = "wait"], config[i]),
            remote, <<>>, 0)

\* the keys of the desired indexes as waitForIndexesReady builds them
WaitDesiredKeys(c) ==
    {getIndexKey(convertModelToFirestoreIndex(c.Indexes[j])) : j \in DOMAIN c.Indexes}

RECURSIVE WaitLoopFoundIsReady(_, _, _)
\* waitForIndexesReady taking every index it finds, unless in ERROR, as ready
WaitLoopFoundIsReady(iter, existingByKey, allReady) ==
    IF Len(iter) = 0 THEN [failed |-> <<>>, allReady |-> allReady]
    ELSE IF iter[1] \notin DOMAIN existingByKey
    THEN WaitLoopFoundIsReady(Tail(iter), existingByKey, FALSE)
    ELSE IF existingByKey[iter[1]].State = "ERROR"
    THEN [failed |-> <<existingByKey[iter[1]].Name>>, allReady |-> allReady]
    ELSE WaitLoopFoundIsReady(Tail(iter), existingByKey, allReady)

RECURSIVE WaitLoopErrorNotTerminal(_, _, _)
\* waitForIndexesReady without the case "ERROR": the index is just not ready
WaitLoopErrorNotTerminal(iter, existingByKey, allReady) ==
    IF Len(iter) = 0 THEN [failed |-> <<>>, allReady |-> allReady]
    ELSE IF iter[1] \notin DOMAIN existingByKey
    THEN WaitLoopErrorNotTerminal(Tail(iter), existingByKey, FALSE)
    ELSE IF existingByKey[iter[1]].State = "READY"
    THEN WaitLoopErrorNotTerminal(Tail(iter), existingByKey, allReady)
    ELSE WaitLoopErrorNotTerminal(Tail(iter), existingByKey, FALSE)

RECURSIVE WaitLoop(_, _, _)
\* waitForIndexesReady, sync.go:459-476: the loop over desiredKeys visited in
\* order iter; the result is the name of the index found in ERROR, if any,
\* and allReady
WaitLoop(iter, existingByKey, allReady) ==
    IF Len(iter) = 0 THEN [failed |-> <<>>, allReady |-> allReady]
    ELSE IF iter[1] \notin DOMAIN existingByKey
    THEN WaitLoop(Tail(iter), existingByKey, FALSE)
    ELSE IF existingByKey[iter[1]].State = "READY"
    THEN WaitLoop(Tail(iter), existingByKey, allReady)
    ELSE IF existingByKey[iter[1]].State = "ERROR"
    THEN [failed |-> <<existingByKey[iter[1]].Name>>, allReady |-> allReady]
    ELSE WaitLoop(Tail(iter), existingByKey, FALSE)

\* waitForIndexesReady that returns the error of ListIndexes
AfterFailedListingReturned(t) == Failed(t, ErrRemote("ListIndexes"))

\* waitForIndexesReady, sync.go:445-453: ListIndexes returned an error
AfterFailedListing(t) ==
    IF CtxDone THEN Failed(t, ErrContext) ELSE [t EXCEPT !.pc = "waitSleep"]

\* waitForIndexesReady, sync.go:444-481: one listing of the polling loop, the
\* call ending as o
WaitListOutcome(i, o) ==
    LET existing == ListIndexes(remote, config[i].Name)
        ev == Event("waitList", "ListIndexes", config[i].Name,
                    IF o = "ok" THEN existing ELSE <<>>, o = "ok")
        polled == [task[i] EXCEPT !.polls = @ + 1]
    IN  IF o # "ok"
        THEN Step(i, AfterFailedListing(polled), remote, <<ev>>, FaultCount(o))
        ELSE \E iter \in MapIterations(WaitDesiredKeys(config[i])) :
               LET v == WaitLoop(iter, ExistingMap(existing), TRUE)
               IN  Step(i,
                        IF v.failed # <<>> THEN Failed(polled, ErrIndexState(v.failed[1]))
                        ELSE IF v.allReady THEN [polled EXCEPT !.pc = "ttl"]
                        ELSE [polled EXCEPT !.pc = "waitSleep"],
                        remote, <<ev>>, 0)

\* one listing of the polling loop
WaitList(i) ==
    /\ Running(i)
    /\ task[i].pc = "waitList"
    /\ task[i].polls < MaxPolls
    /\ \E o \in Outcomes(CtxDone) : WaitListOutcome(i, o)

\* a backoff that doubles without limit
MinUncapped(a, b) == a

Min(a, b) == IF a < b THEN a ELSE b

\* waitForIndexesReady, sync.go:489-498: the select on ctx.Done() and the
\* backoff timer.  The timer is started by the select; the goroutine is woken
\* by the event that comes first, so the sleep ends normally only while the
\* context is not done
WaitSleep(i) ==
    /\ Running(i)
    /\ task[i].pc = "waitSleep"
    /\ \/ /\ ~CtxDone
          /\ Step(i, [task[i] EXCEPT !.pc = "waitList",
                                     !.backoff = Min(@ * 2, MaxBackoff)],
                  remote, <<Event("waitSleep", "Sleep", task[i].backoff, <<>>, TRUE)>>, 0)
       \/ /\ CtxDone
          /\ Step(i, Failed(task[i], ErrContext), remote, <<>>, 0)

\* after a TTL call that returned operation op (TRUE: not nil)
AfterTTLCall(t, op, next) ==
    IF ~sync.async /\ op THEN [t EXCEPT !.pc = "opwait", !.after = next]
    ELSE [t EXCEPT !.pc = next]

\* syncTTL, sync.go:288-338: no TTL desired, or read the policy and decide
SyncTTL(i) ==
    /\ Running(i)
    /\ task[i].pc = "ttl"
    /\ LET c == config[i]
       IN  IF c.TTL = <<>>
           THEN IF sync.dryRun
                THEN Step(i, [task[i] EXCEPT !.pc = "done"], remote, <<>>, 0)
                ELSE \E o \in Outcomes(CtxDone) :
                       LET ev == Event("ttl", "DisableTTLPolicy", c.Name, <<>>, o = "ok")
                       IN  IF o # "ok"
                           THEN Step(i, Failed(task[i], OutcomeError(o, "DisableTTLPolicy")),
                                     remote, <<ev>>, FaultCount(o))
                           ELSE \E found \in FindTTLField(remote, c.Name) :
                                  Step(i, AfterTTLCall(task[i], found # "", "done"),
                                       DisableTTLPolicy(remote, c.Name, found), <<ev>>, 0)
           ELSE \E o \in Outcomes(CtxDone) :
                  LET existing == GetTTLPolicy(remote, c.Name, c.TTL[1].Field)
                      ev == Event("ttl", "GetTTLPolicy", c.Name,
                                  IF o = "ok" THEN existing ELSE <<>>, o = "ok")
                      d == DiffTTL(c.TTL, existing)
                  IN  Step(i,
                           IF o # "ok" THEN Failed(task[i], OutcomeError(o, "GetTTLPolicy"))
                           ELSE IF ~d[1] \/ sync.dryRun THEN [task[i] EXCEPT !.pc = "done"]
                           ELSE IF d[2] = "enable" THEN [task[i] EXCEPT !.pc = "ttlEnable"]
                           ELSE [task[i] EXCEPT !.pc = "ttlDisableOld"],
                           remote, <<ev>>, FaultCount(o))

\* syncTTL, sync.go:340-425: apply the action.  "enable" calls EnableTTLPolicy;
\* "change" first disables the old policy and then enables the new one
SyncTTLApply(i) ==
    /\ Running(i)
    /\ task[i].pc \in {"ttlEnable", "ttlDisableOld"}
    /\ \E o \in Outcomes(CtxDone) :
         LET c == config[i]
         IN  IF task[i].pc = "ttlEnable"
             THEN LET ev == Event("ttlEnable", "EnableTTLPolicy", c.TTL[1].Field, <<>>, o = "ok")
                  IN  Step(i,
                           IF o # "ok" THEN Failed(task[i], OutcomeError(o, "EnableTTLPolicy"))
                           ELSE AfterTTLCall(task[i], TRUE, "done"),
                           IF o = "ok" THEN EnableTTLPolicy(remote, c.Name, c.TTL[1].Field)
                           ELSE remote,
                           <<ev>>, FaultCount(o))
             ELSE LET ev == Event("ttlDisableOld", "DisableTTLPolicy", c.Name, <<>>, o = "ok")
                  IN  IF o # "ok"
                      THEN Step(i, Failed(task[i], OutcomeError(o, "DisableTTLPolicy")),
                                remote, <<ev>>, FaultCount(o))
                      ELSE \E found \in FindTTLField(remote, c.Name) :
                             Step(i, AfterTTLCall(task[i], found # "", "ttlEnable"),
                                  DisableTTLPolicy(remote, c.Name, found), <<ev>>, 0)

\* waitForOperationWithProgress for a TTL operation, sync.go:503-529
WaitForOperation(i) ==
    /\ Running(i)
    /\ task[i].pc = "opwait"
    /\ \E o \in OperationOutcomes(CtxDone) :
         LET ev == Event("opwait", "WaitForOperation", config[i].Name, <<>>, o = "ok")
         IN  Step(i,
                  IF o # "ok" THEN Failed(task[i], OutcomeError(o, "WaitForOperation"))
                  ELSE [task[i] EXCEPT !.pc = task[i].after],
                  remote, <<ev>>, FaultCount(o))

\* Execute, sync.go:94-99: g.Wait() returns the first error
ExecuteReturn ==
    /\ result = "running"
    /\ \A i \in Tasks : task[i].pc \in {"done", "failed"}
    /\ result' = IF groupErr = <<>> THEN "ok" ELSE "error"
    /\ UNCHANGED <<config, sync, remote, task, log, groupErr, callerCancelled, faults,
                   run, pureVars>>

\* the caller runs Execute again with the same configuration
ExecuteAgain ==
    /\ result = "ok"
    /\ run < MaxRuns
    /\ run' = run + 1
    /\ result' = "running"
    /\ task' = [i \in Tasks |-> NewTask]
    /\ log' = Append(log, [i \in Tasks |-> <<>>])
    /\ callerCancelled' = FALSE
    /\ UNCHANGED <<config, sync, remote, groupErr, faults, pureVars>>

\* the caller cancels the context it passed to Execute
CallerCancel ==
    /\ result = "running"
    /\ ~callerCancelled
    /\ callerCancelled' = TRUE
    /\ UNCHANGED <<config, sync, remote, task, log, groupErr, faults, result, run, pureVars>>

\* the service finishes building an index, or gives up on it
IndexProgress(coll, k) ==
    /\ coll \in DOMAIN remote.indexes
    /\ k \in DOMAIN remote.indexes[coll]
    /\ remote.indexes[coll][k].State = "CREATING"
    /\ \E st \in {"READY", "ERROR", "NEEDS_REPAIR"} :
         remote' = [remote EXCEPT !.indexes[coll][k].State = st]
    /\ UNCHANGED <<config, sync, task, log, groupErr, callerCancelled, faults, result, run,
                   pureVars>>

\* the service finishes enabling a TTL policy
TTLProgress(coll, f) ==
    /\ coll \in DOMAIN remote.ttl
    /\ f \in DOMAIN remote.ttl[coll]
    /\ remote.ttl[coll][f] = "CREATING"
    /\ remote' = [remote EXCEPT !.ttl[coll][f] = "ACTIVE"]
    /\ UNCHANGED <<config, sync, task, log, groupErr, callerCancelled, faults, result, run,
                   pureVars>>

----------------------------------------------------------------------------
(* Specification Spec: Execute on bounded configurations and remote states *)

\* the collections of the configurations
Users1 == Collection("users", <<Index(<<Asc("a"), Desc("b")>>, "COLLECTION")>>, <<>>)
Users2 == Collection("users", <<Index(<<Asc("a"), Desc("b")>>, "COLLECTION"),
                                Index(<<Asc("b"), Asc(NameField)>>, "COLLECTION_GROUP")>>,
                     <<>>)
Posts1 == Collection("posts", <<Index(<<Asc("a"), Vec("v", 2)>>, "COLLECTION")>>, <<>>)
Posts2 == Collection("posts", <<>>, <<[Field |-> "expireAt"]>>)
Unnamed == Collection("", <<Index(<<Asc("a")>>, "COLLECTION")>>, <<>>)

\* the index listings a collection may have before Execute starts, among them
\* indexes another party has created
InitialIndexes ==
    [c \in CollectionNames |->
        IF c = "users"
        THEN { <<>>,
               <<FirestoreIndex("users/indexes/ext1", <<FAsc("a"), FDesc("b")>>,
                                "COLLECTION", "CREATING")>>,
               <<FirestoreIndex("users/indexes/ext3", <<FAsc("b")>>,
                                "COLLECTION", "READY")>>,
               <<FirestoreIndex("users/indexes/ext2", <<FDesc("b"), FAsc("a")>>,
                                "COLLECTION", "READY"),
                 FirestoreIndex("users/indexes/ext3", <<FAsc("b")>>,
                                "COLLECTION", "READY")>> }
        ELSE { <<>>,
               <<FirestoreIndex("posts/indexes/ext1", <<FAsc("a"), FVec("v", 2)>>,
                                "COLLECTION", "CREATING")>> }]

\* the TTL policies a collection may have before Execute starts
InitialTTL ==
    [c \in CollectionNames |->
        IF c = "users"
        THEN { [f \in SyncTTLFields |-> ""],
               [f \in SyncTTLFields |-> IF f = "deletedAt" THEN "ACTIVE" ELSE ""] }
        ELSE { [f \in SyncTTLFields |-> ""],
               [f \in SyncTTLFields |-> IF f = "expireAt" THEN "CREATING" ELSE ""],
               [f \in SyncTTLFields |-> IF f = "deletedAt" THEN "ACTIVE" ELSE ""] }]

NoTTL == [f \in SyncTTLFields |-> ""]

\* a configuration of one collection, run against every initial remote state
SingleConfigs == {<<Users1>>, <<Posts1>>, <<Posts2>>, <<Unnamed>>}

\* configurations whose collections or indexes are processed concurrently, run
\* against a remote where the collections exist and are empty
ConcurrentConfigs == {<<Users2>>, <<Users1, Unnamed>>, <<Posts2, Users1>>}

ConfigNames(cfg) == {cfg[i].Name : i \in DOMAIN cfg} \cap CollectionNames

\* the remote states Execute may start from under configuration cfg: the
\* collections it names may exist, with indexes and policies; a collection that
\* does not exist has none
InitialRemotes(cfg) ==
    {r \in [collections : SUBSET ConfigNames(cfg),
            indexes : [CollectionNames -> UNION {InitialIndexes[c] : c \in CollectionNames}],
            ttl : [CollectionNames -> UNION {InitialTTL[c] : c \in CollectionNames}],
            nextId : {1}] :
        \A c \in CollectionNames :
           IF c \in r.collections
           THEN r.indexes[c] \in InitialIndexes[c] /\ r.ttl[c] \in InitialTTL[c]
           ELSE r.indexes[c] = <<>> /\ r.ttl[c] = NoTTL}

FreshRemote(cfg) ==
    [collections |-> ConfigNames(cfg), indexes |-> [c \in CollectionNames |-> <<>>],
     ttl |-> [c \in CollectionNames |-> NoTTL], nextId |-> 1]

Scenarios ==
    UNION {{[config |-> cfg, remote |-> r] : r \in InitialRemotes(cfg)} :
              cfg \in SingleConfigs}
    \cup {[config |-> cfg, remote |-> FreshRemote(cfg)] : cfg \in ConcurrentConfigs}

Init ==
    /\ args = <<>>
    /\ ret = <<>>
    /\ called = ""
    /\ \E s \in Scenarios : config = s.config /\ remote = s.remote
    /\ sync \in [dryRun : BOOLEAN, async : BOOLEAN]
    /\ task = [i \in DOMAIN config |-> NewTask]
    /\ log = <<[i \in DOMAIN config |-> <<>>]>>
    /\ groupErr = <<>>
    /\ callerCancelled = FALSE
    /\ faults = 0
    /\ result = "running"
    /\ run = 1
    /\ imp = ImportIdle
    /\ adm = AdapterIdle

\* the steps of one Execute, and of the caller and the service while it runs
Next ==
    \/ \E i \in Tasks : Acquire(i)
    \/ \E i \in Tasks : Validate(i)
    \/ \E i \in Tasks : EnsureCollectionExists(i)
    \/ \E i \in Tasks : EnsureCreateCollection(i)
    \/ \E i \in Tasks : SyncIndexesList(i)
    \/ \E i \in Tasks : SyncIndexesDelete(i)
    \/ \E i \in Tasks : \E k \in DOMAIN task[i].sub : CreateAcquire(i, k)
    \/ \E i \in Tasks : \E k \in DOMAIN task[i].sub : CreateCall(i, k)
    \/ \E i \in Tasks : \E k \in DOMAIN task[i].sub : CreateWaitForOperation(i, k)
    \/ \E i \in Tasks : CreateJoin(i)
    \/ \E i \in Tasks : WaitList(i)
    \/ \E i \in Tasks : WaitSleep(i)
    \/ \E i \in Tasks : SyncTTL(i)
    \/ \E i \in Tasks : SyncTTLApply(i)
    \/ \E i \in Tasks : WaitForOperation(i)
    \/ ExecuteReturn
    \/ CallerCancel
    \/ /\ result = "running"
       /\ \E coll \in CollectionNames : \E k \in 1..Len(remote.indexes[coll]) :
            IndexProgress(coll, k)
    \/ /\ result = "running"
       /\ \E coll \in CollectionNames : \E f \in SyncTTLFields : TTLProgress(coll, f)

Spec == Init /\ [][Next]_vars

----------------------------------------------------------------------------
(* Specification SpecRerun: Execute run again with the same configuration  *)
(* once it has returned successfully                                       *)

InitRerun == Init /\ config \in {<<Users1>>, <<Posts2>>}

\* the service between two runs
BetweenRuns ==
    /\ result = "ok"
    /\ run < MaxRuns
    /\ \/ \E coll \in CollectionNames : \E k \in 1..Len(remote.indexes[coll]) :
            IndexProgress(coll, k)
       \/ \E coll \in CollectionNames : \E f \in SyncTTLFields : TTLProgress(coll, f)

NextRerun == Next \/ ExecuteAgain \/ BetweenRuns

SpecRerun == InitRerun /\ [][NextRerun]_vars

----------------------------------------------------------------------------
(* Specification SpecSem: a dry run of Execute on configurations larger     *)
(* than its semaphores: one collection more than the collection semaphore   *)
(* admits, and one index more than the index semaphore admits.  The calls   *)
(* are not recorded                                                         *)

\* more collections than CollectionSemaphore; their tasks end at validation
ManyCollections == [k \in 1..(CollectionSemaphore + 1) |-> Unnamed]

IndexPool ==
    <<Index(<<Asc("a")>>, "COLLECTION"), Index(<<Desc("a")>>, "COLLECTION"),
      Index(<<Asc("b")>>, "COLLECTION"), Index(<<Desc("b")>>, "COLLECTION"),
      Index(<<Asc("a")>>, "COLLECTION_GROUP"), Index(<<Desc("a")>>, "COLLECTION_GROUP")>>

\* a collection with more indexes than IndexSemaphore
ManyIndexes == Collection("users", SubSeq(IndexPool, 1, IndexSemaphore + 1), <<>>)

InitSem ==
    /\ args = <<>>
    /\ ret = <<>>
    /\ called = ""
    /\ config \in {ManyCollections, <<ManyIndexes>>}
    /\ remote = FreshRemote(config)
    /\ sync = [dryRun |-> TRUE, async |-> FALSE]
    /\ task = [i \in DOMAIN config |-> NewTask]
    /\ log = <<>>
    /\ groupErr = <<>>
    /\ callerCancelled = FALSE
    /\ faults = 0
    /\ result = "running"
    /\ run = 1
    /\ imp = ImportIdle
    /\ adm = AdapterIdle

\* the steps of a dry run
NextSem ==
    \/ \E i \in Tasks : Acquire(i)
    \/ \E i \in Tasks : Validate(i)
    \/ \E i \in Tasks : EnsureCollectionExists(i)
    \/ \E i \in Tasks : SyncIndexesList(i)
    \/ \E i \in Tasks : \E k \in DOMAIN task[i].sub : CreateAcquire(i, k)
    \/ \E i \in Tasks : \E k \in DOMAIN task[i].sub : CreateCall(i, k)
    \/ \E i \in Tasks : CreateJoin(i)
    \/ \E i \in Tasks : SyncTTL(i)
    \/ ExecuteReturn

SpecSem == InitSem /\ [][NextSem]_vars

----------------------------------------------------------------------------
(* Properties of the reconciler *)

\* the methods of interfaces.FirestoreClient
ClientCalls ==
    {"ListCollections", "CollectionExists", "CreateCollection", "ListIndexes",
     "CreateIndex", "DeleteIndex", "GetTTLPolicy", "EnableTTLPolicy", "DisableTTLPolicy",
     "WaitForOperation"}

ReadCalls == {"ListIndexes", "GetTTLPolicy"}

\* the entries of the call log of task i in run r
TaskEvents(r, i) == {log[r][i][p] : p \in DOMAIN log[r][i]}

\* the entries of the call log of all tasks and runs
LogEvents == UNION {TaskEvents(r, i) : r \in DOMAIN log, i \in Tasks}

\* the client calls Execute has issued
CallsIssued == {e.call : e \in LogEvents} \cap ClientCalls

\* a step of a task of Execute
TaskStep == task' # task

\* C7: in dry-run mode Execute issues no client call other than ListIndexes and
\* GetTTLPolicy -- none of CollectionExists, CreateCollection, CreateIndex,
\* DeleteIndex, EnableTTLPolicy, DisableTTLPolicy -- and no step of Execute
\* changes the remote state
TheoremC7 ==
    /\ [](sync.dryRun => CallsIssued \subseteq ReadCalls)
    /\ [][sync.dryRun /\ TaskStep => remote' = remote]_vars

\* a dry run over a collection that does not exist and lacks a desired index
\* has returned: it reported the index it would create and read the listing
WitnessC7 ==
    /\ sync.dryRun
    /\ result = "ok"
    /\ \E i \in Tasks :
         /\ config[i].Name \notin remote.collections
         /\ \E e \in TaskEvents(1, i) : e.call = "Would create index"
         /\ \E e \in TaskEvents(1, i) : e.call = "ListIndexes"

\* C6: once Execute has returned successfully, a second Execute with the same
\* configuration issues no CreateIndex call and no DeleteIndex call
CounterexampleC6 ==
    \A r \in DOMAIN log : \A i \in Tasks :
        r > 1 => \A e \in TaskEvents(r, i) : e.call \notin {"CreateIndex", "DeleteIndex"}

\* the listing the diff of task i was computed from in run r
DiffListing(r, i) ==
    LET evs == {e \in TaskEvents(r, i) : e.at = "list" /\ e.ok}
    IN  IF evs = {} THEN <<>> ELSE (CHOOSE e \in evs : TRUE).res

\* the desired keys of collection c that waitForIndexesReady finds in state st
\* in a listing
KeysInState(c, listing, st) ==
    IF \A n \in DOMAIN listing : listing[n].State # st THEN {}
    ELSE LET existingByKey == ExistingMap(listing)
         IN  {k \in WaitDesiredKeys(c) :
                 /\ k \in DOMAIN existingByKey
                 /\ existingByKey[k].State = st}

\* the desired keys whose index was already CREATING when run r listed the
\* indexes of task i
ExternallyCreating(r, i) == KeysInState(config[i], DiffListing(r, i), "CREATING")

\* the positions in the log of task i of the listings of its wait loop
WaitObservations(r, i) ==
    {p \in DOMAIN log[r][i] : log[r][i][p].at = "waitList" /\ log[r][i][p].ok}

LastOf(P) == CHOOSE p \in P : \A q \in P : q <= p

TTLPhase == {"ttl", "ttlEnable", "ttlDisableOld", "opwait"}

\* waitForIndexesReady of task i has returned nil
PastWait(r, i) ==
    \/ task[i].pc \in TTLPhase \cup {"done"}
    \/ task[i].pc = "failed" /\ \E e \in TaskEvents(r, i) : e.at \in TTLPhase

\* after the listing at position p the wait loop of task i goes on: it sleeps
\* and lists again, unless the context is cancelled meanwhile
PollingContinues(r, i, p) ==
    LET l == log[r][i]
    IN  /\ IF p = Len(l)
           THEN \/ task[i].pc = "waitSleep"
                \/ task[i].pc = "failed" /\ task[i].err = <<ErrContext>>
           ELSE l[p + 1].call = "Sleep"
        /\ p + 1 \in DOMAIN l =>
              IF p + 1 = Len(l)
              THEN task[i].pc = "waitList"
              ELSE l[p + 2].at = "waitList"

NamesInState(c, listing, st) ==
    {ExistingMap(listing)[k].Name : k \in KeysInState(c, listing, st)}

\* the listing at position p of the wait loop of task i finds a desired index
\* in state st
Observed(i, p, st) == KeysInState(config[i], log[run][i][p].res, st) # {}

\* the wait of task i ended at the listing at position p with an error that
\* names a desired index that listing shows in ERROR
WaitEndedWithIndexError(i, p) ==
    /\ p = Len(log[run][i])
    /\ task[i].pc = "failed"
    /\ task[i].err # <<>>
    /\ task[i].err[1].msg = "index entered ERROR state"
    /\ task[i].err[1].index \in NamesInState(config[i], log[run][i][p].res, "ERROR")

CounterexampleC10 ==
    \A i \in Tasks : \A p \in WaitObservations(run, i) :
        Observed(i, p, "NEEDS_REPAIR") =>
            /\ p = Len(log[run][i])
            /\ task[i].pc = "failed"


----------------------------------------------------------------------------
(* Success of Execute and the state of the desired indexes *)

\* the positions in the log of task i of its successful listings in run r
Listings(r, i) ==
    {p \in DOMAIN log[r][i] : log[r][i][p].call = "ListIndexes" /\ log[r][i][p].ok}

\* the last listing task i observed in run r
LastListing(r, i) ==
    IF Listings(r, i) = {} THEN <<>> ELSE log[r][i][LastOf(Listings(r, i))].res

\* the desired indexes of collection c a listing contains in READY state: the
\* same scope and the same fields in the same order, where the service may
\* have appended the reserved field to a non-vector index
ReadyInListing(c, listing) ==
    {d \in DOMAIN c.Indexes :
        \E n \in DOMAIN listing :
            /\ listing[n].State = "READY"
            /\ ServiceIdentity(listing[n])
                 = ServiceIdentity(convertModelToFirestoreIndex(c.Indexes[d]))}

\* C11: when an Execute that is neither async nor dry returns success, the
\* last listing each collection's task observed contains every desired index
\* of the collection in READY state
CounterexampleC11 ==
    (result = "ok" /\ ~sync.async /\ ~sync.dryRun) =>
        \A i \in Tasks :
            ReadyInListing(config[i], LastListing(run, i)) = DOMAIN config[i].Indexes

\* C12: in an Execute that is neither async nor dry, a listing of the wait
\* loop that shows every desired index of the collection READY (the reserved
\* field the service may have appended to a non-vector index not counting as
\* a difference) ends the wait: the loop does not sleep and list again.  The
\* states of the indexes being final, a wait that goes on after such a
\* listing never returns
CounterexampleC12 ==
    (~sync.async /\ ~sync.dryRun) =>
        \A i \in Tasks : \A p \in WaitObservations(run, i) :
            ReadyInListing(config[i], log[run][i][p].res) = DOMAIN config[i].Indexes
            => /\ p = Len(log[run][i]) => task[i].pc # "waitSleep"
               /\ p < Len(log[run][i]) => log[run][i][p + 1].call # "Sleep"

----------------------------------------------------------------------------
(* Async mode *)

\* the positions in the log of task i of its ListIndexes calls in run r
ListCalls(r, i) == {p \in DOMAIN log[r][i] : log[r][i][p].call = "ListIndexes"}

\* the desired indexes of collection c the service holds in state st
DesiredInState(c, st) ==
    {d \in DOMAIN c.Indexes :
        \E n \in DOMAIN remote.indexes[c.Name] :
            /\ remote.indexes[c.Name][n].State = st
            /\ ServiceIdentity(remote.indexes[c.Name][n])
                 = ServiceIdentity(convertModelToFirestoreIndex(c.Indexes[d]))}

\* C13: in async mode no task enters the wait loop: it never polls, sleeps or
\* waits for an operation; it calls ListIndexes at most once, for the diff,
\* and exactly once when it completes
TheoremC13 ==
    sync.async =>
        \A i \in Tasks :
            /\ task[i].pc \notin {"waitList", "waitSleep", "opwait"}
            /\ \A e \in TaskEvents(run, i) :
                  /\ e.at \notin {"waitList", "waitSleep", "opwait"}
                  /\ e.call \notin {"Sleep", "WaitForOperation"}
            /\ Cardinality(ListCalls(run, i)) <= 1
            /\ \A p \in ListCalls(run, i) : log[run][i][p].at = "list"
            /\ task[i].pc = "done" => Cardinality(ListCalls(run, i)) = 1

\* an async Execute has created a desired index and returned success while
\* the service is still building that index
WitnessC13 ==
    /\ sync.async /\ ~sync.dryRun
    /\ result = "ok"
    /\ \E i \in Tasks :
         /\ \E e \in TaskEvents(run, i) : e.call = "CreateIndex" /\ e.ok
         /\ DesiredInState(config[i], "CREATING") # {}
         /\ Cardinality(ListCalls(run, i)) = 1

----------------------------------------------------------------------------
(* Cancellation *)

\* task i takes a step
StepOf(i) == task'[i] # task[i]

\* the goroutine of a task has returned the error of the context
FailedOnContext(t) == t.pc = "failed" /\ t.err = <<ErrContext>>

\* C14 as stated: when the caller's context is cancelled while a task is in
\* the polling loop or waits for an operation, Execute returns the error of
\* the context: the first error the errgroup holds by then, which is the one
\* Execute returns, is none yet or the context's
CounterexampleC14 ==
    \A i \in Tasks :
        (callerCancelled /\ task[i].pc \in {"waitList", "waitSleep", "opwait"})
            => groupErr \in {<<>>, <<ErrContext>>}

\* C14: once the context of Execute is done, a task in the backoff sleep or
\* in an operation wait returns the context's error at its next step, without
\* another call; a task whose listing is in flight either returns the
\* context's error, or the listing completes and ends the wait (success, or
\* an error naming an index) or leads to the sleep that returns the context's
\* error; a create goroutine waiting for its operation fails likewise.  A task
\* that returns the context's error makes it the error of Execute unless
\* another error was first, and Execute does not return success
TheoremC14 ==
    /\ [][\A i \in Tasks :
            (CtxDone /\ StepOf(i)) =>
                /\ task[i].pc = "waitSleep" =>
                      /\ FailedOnContext(task'[i])
                      /\ log'[run][i] = log[run][i]
                /\ task[i].pc = "opwait" => FailedOnContext(task'[i])
                /\ task[i].pc = "waitList" =>
                      \/ FailedOnContext(task'[i])
                      \/ /\ log'[run][i][Len(log'[run][i])].ok
                         /\ \/ task'[i].pc \in {"ttl", "waitSleep"}
                            \/ /\ task'[i].pc = "failed"
                               /\ task'[i].err[1].index # ""
                /\ \A k \in DOMAIN task[i].sub :
                      (task[i].sub[k] = "opwait" /\ task'[i].sub[k] # "opwait") =>
                          /\ task'[i].sub[k] = "failed"
                          /\ task'[i].innerErr # <<>>
                          /\ task[i].innerErr = <<>> => task'[i].innerErr = <<ErrContext>>
                /\ FailedOnContext(task'[i]) =>
                      groupErr' = IF groupErr = <<>> THEN <<ErrContext>> ELSE groupErr
         ]_vars
    /\ [](\A i \in Tasks :
            FailedOnContext(task[i]) => groupErr # <<>> /\ result # "ok")

\* the caller cancelled while a task was polling; the task stopped with the
\* context's error after a listing of the wait loop, and Execute returned it
WitnessC14 ==
    /\ callerCancelled
    /\ result = "error"
    /\ groupErr = <<ErrContext>>
    /\ \E i \in Tasks :
         /\ FailedOnContext(task[i])
         /\ log[run][i] # <<>>
         /\ log[run][i][Len(log[run][i])].at \in {"waitList", "waitSleep"}

----------------------------------------------------------------------------
(* Failure of a task *)

\* the tasks whose goroutine has returned an error
FailedTasks == {i \in Tasks : task[i].pc = "failed"}

\* task i fails in this step
Fails(i) == task[i].pc # "failed" /\ task'[i].pc = "failed"

\* C15: Execute returns an error exactly when a task failed, and the error
\* is the one of the task that failed first: the errgroup takes the error of
\* the first failure and keeps it.  From then on, without any cancellation
\* by the caller, a sibling in the backoff sleep or in an operation wait
\* returns the context's error at its next step.  The step in which a task
\* fails leaves the service as it is and issues no call but the failed one,
\* a failed task issues no call, and no call undoes a mutation: DeleteIndex is
\* called only for indexes of the first listing, DisableTTLPolicy never after
\* EnableTTLPolicy
TheoremC15 ==
    /\ [](/\ FailedTasks # {} <=> groupErr # <<>>
          /\ groupErr # <<>> => \E i \in FailedTasks : groupErr = task[i].err
          /\ result # "running" => (result = "error" <=> FailedTasks # {}))
    /\ [](\A i \in Tasks : \A p \in DOMAIN log[run][i] :
            LET e == log[run][i][p]
            IN  /\ e.call = "DeleteIndex" =>
                      \E n \in DOMAIN DiffListing(run, i) :
                          DiffListing(run, i)[n].Name = e.arg
                /\ e.call = "EnableTTLPolicy" =>
                      \A q \in DOMAIN log[run][i] :
                          q > p => log[run][i][q].call # "DisableTTLPolicy")
    /\ [][/\ groupErr # <<>> => groupErr' = groupErr
          /\ \A i \in Tasks :
               /\ Fails(i) =>
                     /\ groupErr = <<>> => groupErr' = task'[i].err
                     /\ remote' = remote
                     /\ Len(log'[run][i]) <= Len(log[run][i]) + 1
               /\ task[i].pc = "failed" =>
                     task'[i] = task[i] /\ log'[run][i] = log[run][i]
               /\ (groupErr # <<>> /\ ~callerCancelled /\ StepOf(i)
                   /\ task[i].pc \in {"waitSleep", "opwait"})
                     => FailedOnContext(task'[i])
         ]_vars

\* one task failed first, on an error of its own; its sibling, which had
\* created an index and was polling, stopped on the context's error though
\* the caller did not cancel; Execute returned the first error and the
\* created index is still there
WitnessC15 ==
    /\ ~callerCancelled
    /\ result = "error"
    /\ \E i, j \in Tasks :
         /\ i # j
         /\ task[j].pc = "failed"
         /\ groupErr = task[j].err
         /\ groupErr # <<ErrContext>>
         /\ FailedOnContext(task[i])
         /\ \E e \in TaskEvents(run, i) : e.call = "CreateIndex" /\ e.ok
         /\ log[run][i][Len(log[run][i])].at \in {"waitList", "waitSleep"}
         /\ remote.indexes[config[i].Name] # <<>>

----------------------------------------------------------------------------
(* Bounded concurrency *)

----------------------------------------------------------------------------
(* Order of the calls of one collection *)

DeleteCalls == {"DeleteIndex", "Would delete index"}
CreateCalls == {"CreateIndex", "Would create index"}

\* C17: in the task of a collection every delete of the diff comes before
\* every create: once a create goroutine exists or a create call is logged,
\* the delete loop has consumed the whole toDelete of the diff, and no delete
\* call follows a create call in the task's log
TheoremC17 ==
    \A i \in Tasks :
        /\ (task[i].sub # <<>> \/ \E e \in TaskEvents(run, i) : e.call \in CreateCalls)
              => task[i].toDelete = <<>>
        /\ \A p, q \in DOMAIN log[run][i] :
              (log[run][i][p].call \in CreateCalls /\ log[run][i][q].call \in DeleteCalls)
                  => q < p

\* Execute deleted an index of the collection, then created one, and returned
\* success
WitnessC17 ==
    /\ result = "ok"
    /\ \E i \in Tasks : \E p, q \in DOMAIN log[run][i] :
         /\ log[run][i][q].call = "DeleteIndex" /\ log[run][i][q].ok
         /\ log[run][i][p].call = "CreateIndex" /\ log[run][i][p].ok
         /\ q < p

----------------------------------------------------------------------------
(* TTL reconciliation after index reconciliation *)

\* the positions in the log of task i of the calls of syncTTL
TTLCalls(r, i) == {q \in DOMAIN log[r][i] : log[r][i][q].at \in TTLPhase}

----------------------------------------------------------------------------
(* Change of the TTL field *)

\* the fields of collection coll that carry a TTL policy
TTLCarriers(coll) ==
    {f \in SyncTTLFields : remote.ttl[coll][f] \in {"ACTIVE", "CREATING"}}

\* C19: when an Execute that is not a dry run returns success, a collection
\* with the desired TTL field F carries a TTL policy on no other field than
\* F: a policy found on another field was disabled before the one on F was
\* enabled
CounterexampleC19 ==
    (result = "ok" /\ ~sync.dryRun) =>
        \A i \in Tasks :
            config[i].TTL # <<>> =>
                /\ TTLCarriers(config[i].Name) \subseteq {config[i].TTL[1].Field}
                /\ \A p \in DOMAIN log[run][i] :
                      log[run][i][p].call = "EnableTTLPolicy" =>
                          \A q \in DOMAIN log[run][i] :
                              log[run][i][q].call = "DisableTTLPolicy" => q < p

----------------------------------------------------------------------------
(* Validation failure *)

\* the tasks whose collection fails Collection.Validate
Invalid == {i \in Tasks : CollectionValidate(config[i]) # ""}

\* C20 as stated: when a collection fails validation, Execute returns an
\* error that reports that validation failure, and no call was issued for
\* the collection
CounterexampleC20 ==
    (result # "running" /\ Invalid # {}) =>
        /\ result = "error"
        /\ \E i \in Invalid : groupErr = <<ErrValidation(CollectionValidate(config[i]))>>
        /\ \A i \in Invalid : log[run][i] = <<>>

\* C20: the task of a collection that fails validation issues no call at
\* all and returns the validation error; Execute then returns an error,
\* which is that validation error when no other task failed before
TheoremC20 ==
    /\ [](\A i \in Invalid :
            /\ log[run][i] = <<>>
            /\ task[i].pc \in {"queued", "validate", "failed"}
            /\ task[i].pc = "failed" =>
                  task[i].err = <<ErrValidation(CollectionValidate(config[i]))>>
            /\ result # "running" =>
                  /\ result = "error"
                  /\ \E j \in FailedTasks : groupErr = task[j].err)
    /\ [][\A i \in Invalid :
            (Fails(i) /\ groupErr = <<>>) =>
                groupErr' = <<ErrValidation(CollectionValidate(config[i]))>>
         ]_vars

\* Execute returned the validation error of a collection for which it issued
\* no call, while the task of a valid sibling had issued calls
WitnessC20 ==
    /\ result = "error"
    /\ \E i \in Invalid :
         /\ groupErr = <<ErrValidation(CollectionValidate(config[i]))>>
         /\ log[run][i] = <<>>
         /\ \E j \in Tasks \ Invalid : log[run][j] # <<>>

----------------------------------------------------------------------------
(* Specification SpecShape: Execute on collections whose index fields have *)
(* unusual shapes: fields out of place, repeated, without a type or with  *)
(* several types                                                          *)

RECURSIVE VectorFieldIndices(_, _)
\* vectorFieldIndices of validateIndexConstraints: the positions from `from`
\* on of the fields with a vector config, ascending (validate.go:72-79)
VectorFieldIndices(fields, from) ==
    IF from > Len(fields) THEN <<>>
    ELSE (IF fields[from].VectorConfig # <<>> THEN <<from>> ELSE <<>>)
         \o VectorFieldIndices(fields, from + 1)

\* (*Validator).validateIndexConstraints; the result is the error message
\* without its index number, "" for nil.  Positions count from 1, and
\* nameFieldIndex is 0 where the code has -1.
validateIndexConstraints(index) ==
    LET fields == index.Fields
        n == Len(fields)
        names == {i \in 1..n : fields[i].Name = NameField}
        nameFieldIndex == IF names = {} THEN 0
                          ELSE CHOOSE i \in names : \A j \in names : j <= i
        vectorFieldIndices == VectorFieldIndices(fields, 1)
        expectedStart == n - Len(vectorFieldIndices)
    IN  IF nameFieldIndex > 0 /\ Len(vectorFieldIndices) > 0
        THEN "vector index must not include __name__ field"
        ELSE IF nameFieldIndex > 0 /\ nameFieldIndex # n
        THEN "__name__ field must be last in non-vector index"
        ELSE IF \E j \in DOMAIN vectorFieldIndices :
                    vectorFieldIndices[j] # expectedStart + j
        THEN "vector config field must be at the end of the index"
        ELSE IF n = 0 THEN "index must have at least one field"
        ELSE IF n = 1 /\ fields[1].Name = NameField
        THEN "single-field index on __name__ is not necessary"
        ELSE IF \E i, j \in 1..n : i < j /\ fields[i].Name = fields[j].Name
        THEN "duplicate field name"
        ELSE IF \E i \in 1..n : fields[i].VectorConfig # <<>>
                                /\ fields[i].VectorConfig[1] <= 0
        THEN "vector dimension must be positive"
        ELSE ""

\* indexes that break one constraint of validateIndexConstraints each
VectorNotTrailing == Index(<<Vec("v", 2), Asc("a")>>, "COLLECTION")
NameWithVector == Index(<<Asc(NameField), Vec("v", 2)>>, "COLLECTION")
NameNotLast == Index(<<Asc(NameField), Asc("a")>>, "COLLECTION")
DuplicateField == Index(<<Asc("a"), Desc("a")>>, "COLLECTION")

\* a field with none of order, array config and vector config
Untyped(p) == IndexField(p, "", "", <<>>)

\* fields with two of order, array config and vector config
OrderAndArray(p) == IndexField(p, "ASCENDING", "CONTAINS", <<>>)
OrderAndVector(p, d) == IndexField(p, "ASCENDING", "", <<d>>)
ArrayAndVector(p, d) == IndexField(p, "", "CONTAINS", <<d>>)

ShapeConfigs ==
    { <<Collection("posts", <<VectorNotTrailing>>, <<>>)>>,
      <<Collection("posts", <<NameWithVector>>, <<>>)>>,
      <<Collection("users", <<NameNotLast>>, <<>>)>>,
      <<Collection("users", <<DuplicateField>>, <<>>)>>,
      <<Collection("users", <<Index(<<Untyped("b")>>, "COLLECTION")>>, <<>>)>>,
      <<Collection("users", <<Index(<<Asc("b"), OrderAndArray("a")>>, "COLLECTION")>>, <<>>)>>,
      <<Collection("posts", <<Index(<<Asc("a"), OrderAndVector("v", 2)>>, "COLLECTION")>>,
                   <<[Field |-> "expireAt"]>>)>>,
      <<Collection("posts", <<Index(<<Asc("a"), ArrayAndVector("v", 2)>>, "COLLECTION")>>,
                   <<>>)>> }

InitShape ==
    /\ args = <<>>
    /\ ret = <<>>
    /\ called = ""
    /\ config \in ShapeConfigs
    /\ remote \in InitialRemotes(config)
    /\ sync \in [dryRun : BOOLEAN, async : BOOLEAN]
    /\ task = [i \in DOMAIN config |-> NewTask]
    /\ log = <<[i \in DOMAIN config |-> <<>>]>>
    /\ groupErr = <<>>
    /\ callerCancelled = FALSE
    /\ faults = 0
    /\ result = "running"
    /\ run = 1
    /\ imp = ImportIdle
    /\ adm = AdapterIdle

SpecShape == InitShape /\ [][Next]_vars

\* the indexes of a collection that validateIndexConstraints rejects
Unconstrained(c) ==
    {k \in DOMAIN c.Indexes : validateIndexConstraints(c.Indexes[k]) # ""}

\* C21: the task of a collection with an index that breaks a field constraint
\* (vector fields not trailing, __name__ beside a vector field, __name__ not
\* last, a repeated field name) fails in its validation step, before any call
\* to the remote service
CounterexampleC21 ==
    \A i \in Tasks :
        Unconstrained(config[i]) # {} =>
            /\ log[run][i] = <<>>
            /\ task[i].pc \in {"queued", "validate", "failed"}

\* is a desired field without order, array config and vector config?
IsUntyped(f) == f.Order = "" /\ f.ArrayConfig = "" /\ f.VectorConfig = <<>>

HasUntyped(c) ==
    \E k \in DOMAIN c.Indexes : \E j \in DOMAIN c.Indexes[k].Fields :
        IsUntyped(c.Indexes[k].Fields[j])

\* the index as the service reports it when every untyped field of the desired
\* index is ASCENDING
WithAscending(idx) ==
    LET given == [idx EXCEPT !.Fields =
                     [j \in DOMAIN idx.Fields |->
                         IF IsUntyped(idx.Fields[j])
                         THEN [idx.Fields[j] EXCEPT !.Order = "ASCENDING"]
                         ELSE idx.Fields[j]]]
    IN  convertModelToFirestoreIndex(given)

\* the listing of syncIndexes shows exactly the desired indexes, an untyped
\* field being ASCENDING
ListedAsAscending(c, listing) ==
    /\ Len(listing) = Len(c.Indexes)
    /\ \A k \in DOMAIN c.Indexes : \E x \in DOMAIN listing :
          /\ listing[x].Fields = WithAscending(c.Indexes[k]).Fields
          /\ listing[x].QueryScope = WithAscending(c.Indexes[k]).QueryScope

\* C22: a desired field without order, array config and vector config counts
\* as ASCENDING: when the listing shows the desired indexes with that field
\* ASCENDING, the task creates and deletes nothing, and every create request
\* carries an order, array config or vector config for each of its fields
CounterexampleC22 ==
    \A i \in Tasks :
        HasUntyped(config[i]) =>
            \A e \in TaskEvents(run, i) :
                /\ (e.call \in CreateCalls) =>
                      \A j \in DOMAIN e.arg.Fields :
                          \/ e.arg.Fields[j].Order = "ASCENDING"
                          \/ e.arg.Fields[j].ArrayConfig # ""
                          \/ e.arg.Fields[j].VectorConfig # <<>>
                /\ (e.at = "list" /\ e.ok /\ ListedAsAscending(config[i], e.res)) =>
                      \A d \in TaskEvents(run, i) :
                          d.call \notin (CreateCalls \cup DeleteCalls)

\* the fields of the indexes of a collection
FieldsOf(c) ==
    UNION {{c.Indexes[k].Fields[j] : j \in DOMAIN c.Indexes[k].Fields} :
              k \in DOMAIN c.Indexes}

\* the number of order, array config and vector config a field specifies
TypesOf(f) ==
    (IF f.Order # "" THEN 1 ELSE 0) + (IF f.ArrayConfig # "" THEN 1 ELSE 0)
    + (IF f.VectorConfig # <<>> THEN 1 ELSE 0)

\* does the field combine an array config with an order or a vector config?
ArrayCombined(f) == f.ArrayConfig # "" /\ (f.Order # "" \/ f.VectorConfig # <<>>)

\* did the task of collection i get past its validation step?
Accepted(i) == task[i].pc \notin {"queued", "validate"} /\ ~
    (task[i].pc = "failed" /\ log[run][i] = <<>>)

\* C23 as stated: a collection with a field that specifies more than one of
\* order, array config and vector config is never accepted by the validation
\* step
CounterexampleC23 ==
    \A i \in Tasks :
        (\E f \in FieldsOf(config[i]) : TypesOf(f) > 1) => ~Accepted(i)

\* C23: validation rejects every field that combines an array config with an
\* order or with a vector config, so the task issues no call and fails with
\* that message; a field with an order and a vector config is accepted, and an
\* accepted field has at most one of them besides that pair: it is sent to the
\* service as a vector field without order
TheoremC23 ==
    \A i \in Tasks :
        /\ (\E f \in FieldsOf(config[i]) : ArrayCombined(f)) =>
              /\ ~Accepted(i)
              /\ log[run][i] = <<>>
              /\ task[i].pc = "failed" =>
                    task[i].err \in
                       {<<ErrValidation(
                            "array_config cannot be combined with order or vector_config")>>,
                        <<ErrContext>>}
        /\ Accepted(i) =>
              /\ \A f \in FieldsOf(config[i]) :
                    TypesOf(f) > 1 => (f.Order # "" /\ f.VectorConfig # <<>>)
              /\ \A e \in TaskEvents(run, i) :
                    (e.call \in CreateCalls) =>
                        \A j \in DOMAIN e.arg.Fields :
                            /\ TypesOf(e.arg.Fields[j]) <= 1
                            /\ TypesOf(config[i].Indexes[1].Fields[j]) > 1 =>
                                  /\ e.arg.Fields[j].Order = ""
                                  /\ e.arg.Fields[j].VectorConfig
                                        = config[i].Indexes[1].Fields[j].VectorConfig

\* the task of a collection with a field of order and array config failed in
\* its validation step with that message
WitnessC23 ==
    \E i \in Tasks :
        /\ \E f \in FieldsOf(config[i]) : f.Order # "" /\ f.ArrayConfig # ""
        /\ task[i].pc = "failed"
        /\ task[i].err = <<ErrValidation(
                              "array_config cannot be combined with order or vector_config")>>

----------------------------------------------------------------------------
(* Import: src/unnamed/part_001 lines 1-263 (package usecase, Import), and *)
(* convertFirestoreToModelIndex of internal/usecase/diff.go               *)

\* the per-field conversion of convertFirestoreToModelIndex (diff.go:131-148):
\* a vector field also gets the order ASCENDING
convertFirestoreField(field) ==
    IF field.VectorConfig # <<>> THEN
        IndexField(field.FieldPath, "ASCENDING", "", field.VectorConfig)
    ELSE IF field.Order # "" THEN
        IndexField(field.FieldPath, field.Order, "", <<>>)
    ELSE IF field.ArrayConfig # "" THEN
        IndexField(field.FieldPath, "", field.ArrayConfig, <<>>)
    ELSE IndexField(field.FieldPath, "", "", <<>>)

\* convertFirestoreToModelIndex
convertFirestoreToModelIndex(idx) ==
    Index([j \in 1..Len(idx.Fields) |-> convertFirestoreField(idx.Fields[j])],
          idx.QueryScope)

IsRegularField(f) == f.Name # NameField /\ f.VectorConfig = <<>>
IsVectorField(f) == f.Name # NameField /\ f.VectorConfig # <<>>

\* adjustFieldOrder: regular fields, then *nameField, then vector fields.
\* nameField is the address of the loop variable `field`: where the build
\* gives every iteration its own variable (perIteration) it points to the last
\* __name__ field, otherwise to the one variable of the loop, which holds the
\* last field of the index when the loop has ended.
adjustFieldOrder(index, perIteration) ==
    LET fields == index.Fields
        names == {j \in DOMAIN fields : fields[j].Name = NameField}
        lastName == CHOOSE j \in names : \A k \in names : k <= j
        nameField == IF names = {} THEN <<>>
                     ELSE IF perIteration THEN <<fields[lastName]>>
                     ELSE <<fields[Len(fields)]>>
    IN  Index(SelectSeq(fields, IsRegularField) \o nameField
                  \o SelectSeq(fields, IsVectorField),
              index.QueryScope)

RECURSIVE FieldKeysOfIndex(_)
\* the field part of createIndexKey
FieldKeysOfIndex(fields) ==
    IF Len(fields) = 0 THEN ""
    ELSE ";field:" \o fields[1].Name
         \o (IF fields[1].Order # "" THEN ":order:" \o fields[1].Order ELSE "")
         \o (IF fields[1].ArrayConfig # "" THEN ":array:" \o fields[1].ArrayConfig ELSE "")
         \o (IF fields[1].VectorConfig # <<>>
             THEN ":vector:" \o ToString(fields[1].VectorConfig[1]) ELSE "")
         \o FieldKeysOfIndex(Tail(fields))

\* createIndexKey
createIndexKey(index) == "scope:" \o index.QueryScope \o FieldKeysOfIndex(index.Fields)

\* importIndexes without the skip of the indexes that are not READY
ImportedModelsOfAll(existing, perIteration) ==
    [k \in 1..Len(existing) |->
        adjustFieldOrder(convertFirestoreToModelIndex(existing[k]), perIteration)]

\* importIndexes, lines 97-109: the READY indexes of the listing, converted
\* and adjusted, in the order of the listing
ImportedModels(existing, perIteration) ==
    LET isReady(idx) == idx.State = "READY"
        ready == SelectSeq(existing, isReady)
    IN  [k \in 1..Len(ready) |->
            adjustFieldOrder(convertFirestoreToModelIndex(ready[k]), perIteration)]

\* importIndexes without the deduplication: every model is kept
IndexMapOfAll(models) == models

\* indexMap of importIndexes, lines 111-121, as the sequence of its values:
\* the first model of every key is kept
IndexMap(models) ==
    LET firstOfKey(k) == \A j \in 1..(k - 1) :
                             createIndexKey(models[j]) # createIndexKey(models[k])
        kept == {k \in DOMAIN models : firstOfKey(k)}
        RECURSIVE pick(_)
        pick(k) == IF k > Len(models) THEN <<>>
                   ELSE (IF k \in kept THEN <<models[k]>> ELSE <<>>) \o pick(k + 1)
    IN  pick(1)

\* s < t for field names, in Go's string order
NameLess(s, t) ==
    LET rank(x) == CHOOSE r \in DOMAIN PathsInByteOrder : PathsInByteOrder[r] = x
    IN  rank(s) < rank(t)

\* the less function of importIndexes, lines 131-145
IndexLess(x, y) ==
    IF Len(x.Fields) # Len(y.Fields) THEN Len(x.Fields) < Len(y.Fields)
    ELSE LET differ == {k \in DOMAIN x.Fields : x.Fields[k].Name # y.Fields[k].Name}
         IN  /\ differ # {}
             /\ LET first == CHOOSE k \in differ : \A j \in differ : k <= j
                IN  NameLess(x.Fields[first].Name, y.Fields[first].Name)

\* what importIndexes may return for a listing: the values of indexMap in an
\* order that `range indexMap` and sort.Slice may leave them in
importIndexes(existing, perIteration) ==
    LET values == IndexMap(ImportedModels(existing, perIteration))
        orders == {[k \in DOMAIN values |-> values[p[k]]] :
                      p \in MapIterations(DOMAIN values)}
    IN  {s \in orders : \A a, b \in DOMAIN s : a < b => ~IndexLess(s[b], s[a])}

\* Client.ListCollections (src/unnamed/part_006:244-300): the collections that
\* have an index, and when there is none the collections of the database
ListCollections(r) ==
    LET indexed == {c \in CollectionNames : Len(r.indexes[c]) > 0}
    IN  IF indexed # {} THEN indexed ELSE r.collections

CollectionNamesInByteOrder == <<"posts", "users">>

\* s < t for collection names, in Go's string order
CollectionNameLess(s, t) ==
    LET rank(x) == CHOOSE r \in DOMAIN CollectionNamesInByteOrder :
                       CollectionNamesInByteOrder[r] = x
    IN  rank(s) < rank(t)

RECURSIVE SortCollections(_)
\* sort.Slice of Execute, lines 73-75, for collections of different names
SortCollections(cols) ==
    IF Len(cols) = 0 THEN <<>>
    ELSE LET least == CHOOSE k \in DOMAIN cols :
                          \A j \in DOMAIN cols : ~CollectionNameLess(cols[j].Name, cols[k].Name)
             rest == [j \in 1..(Len(cols) - 1) |-> IF j < least THEN cols[j] ELSE cols[j + 1]]
         IN  <<cols[least]>> \o SortCollections(rest)

\* Import.Execute is called with the collection names args; listed keeps the
\* listings importIndexes has read, one per collection
NewImport(perIteration) ==
    [pc |-> "start", names |-> <<>>, at |-> 1, collections |-> <<>>, indexes |-> <<>>,
     ttlField |-> "", perIteration |-> perIteration, err |-> "", listed |-> <<>>]

\* Execute, lines 60-70: the collection is appended with its TTL and the loop
\* goes on; after the last collection the result is sorted and returned
ImportAppend(st, ttl) ==
    LET cols == Append(st.collections, Collection(st.names[st.at], st.indexes, ttl))
    IN  IF st.at = Len(st.names)
        THEN [st EXCEPT !.collections = SortCollections(cols), !.pc = "done"]
        ELSE [st EXCEPT !.collections = cols, !.at = @ + 1, !.pc = "indexes"]

\* Execute returns the error of call
ImportFailed(st, call) == [st EXCEPT !.pc = "failed", !.err = call \o " failed"]

\* Execute, lines 36-45: the collections to import, discovered when none is given
ImportStart ==
    /\ imp.pc = "start"
    /\ \E o \in Outcomes(FALSE) :
         \E names \in IF Len(args) = 0 THEN MapIterations(ListCollections(remote))
                      ELSE {args} :
            /\ imp' = IF Len(args) = 0 /\ o # "ok" THEN ImportFailed(imp, "ListCollections")
                      ELSE IF Len(names) = 0 THEN [imp EXCEPT !.pc = "done"]
                      ELSE [imp EXCEPT !.names = names, !.pc = "indexes"]
            /\ faults' = faults + (IF Len(args) = 0 THEN FaultCount(o) ELSE 0)
    /\ UNCHANGED <<args, ret, called, adm, config, sync, remote, task, log, groupErr,
                   callerCancelled, result, run>>

\* importIndexes
ImportIndexes ==
    /\ imp.pc = "indexes"
    /\ \E o \in Outcomes(FALSE) :
         /\ IF o # "ok" THEN imp' = ImportFailed(imp, "ListIndexes")
            ELSE \E indexes \in importIndexes(ListIndexes(remote, imp.names[imp.at]),
                                              imp.perIteration) :
                    imp' = [imp EXCEPT !.indexes = indexes, !.pc = "findTTL",
                                       !.listed = Append(@, ListIndexes(remote,
                                                                        imp.names[imp.at]))]
         /\ faults' = faults + FaultCount(o)
    /\ UNCHANGED <<args, ret, called, adm, config, sync, remote, task, log, groupErr,
                   callerCancelled, result, run>>

\* importTTL, lines 152-167: an error of FindTTLField is logged and dropped
ImportFindTTL ==
    /\ imp.pc = "findTTL"
    /\ \E o \in Outcomes(FALSE) :
         /\ IF o # "ok" THEN imp' = ImportAppend(imp, <<>>)
            ELSE \E f \in FindTTLField(remote, imp.names[imp.at]) :
                    imp' = IF f = "" THEN ImportAppend(imp, <<>>)
                           ELSE [imp EXCEPT !.ttlField = f, !.pc = "getTTL"]
         /\ faults' = faults + FaultCount(o)
    /\ UNCHANGED <<args, ret, called, adm, config, sync, remote, task, log, groupErr,
                   callerCancelled, result, run>>

\* importTTL, lines 169-193: the error of GetTTLPolicy is returned; without a
\* policy the log call of line 188 reads ttl.State of a nil pointer
ImportGetTTL ==
    /\ imp.pc = "getTTL"
    /\ \E o \in Outcomes(FALSE) :
         LET ttl == GetTTLPolicy(remote, imp.names[imp.at], imp.ttlField)
         IN  /\ imp' = IF o # "ok" THEN ImportFailed(imp, "GetTTLPolicy")
                       ELSE IF ttl # <<>> /\ ttl[1].State \in {"ACTIVE", "CREATING"}
                       THEN ImportAppend(imp, <<[Field |-> imp.ttlField]>>)
                       ELSE IF ttl = <<>> THEN [imp EXCEPT !.pc = "panic"]
                       ELSE ImportAppend(imp, <<>>)
             /\ faults' = faults + FaultCount(o)
    /\ UNCHANGED <<args, ret, called, adm, config, sync, remote, task, log, groupErr,
                   callerCancelled, result, run>>

\* another party disables the TTL policy of the collection while importTTL is
\* between FindTTLField and GetTTLPolicy
TTLPolicyRemoved ==
    /\ imp.pc = "getTTL"
    /\ remote.ttl[imp.names[imp.at]][imp.ttlField] # ""
    /\ remote' = [remote EXCEPT !.ttl[imp.names[imp.at]][imp.ttlField] = ""]
    /\ UNCHANGED <<config, sync, task, log, groupErr, callerCancelled, faults, result, run,
                   pureVars>>

\* the caller hands the configuration Import returned to Sync
SyncImported ==
    /\ imp.pc = "done"
    /\ result = "idle"
    /\ config' = imp.collections
    /\ task' = [i \in DOMAIN imp.collections |-> NewTask]
    /\ log' = <<[i \in DOMAIN imp.collections |-> <<>>]>>
    /\ result' = "running"
    /\ run' = 1
    /\ UNCHANGED <<sync, remote, groupErr, callerCancelled, faults, pureVars>>

\* the listings of collection posts that Import may find
ImportListings ==
    { <<>>,
      <<FirestoreIndex("posts/indexes/ext1", <<FAsc("a"), FDesc("b")>>,
                       "COLLECTION", "READY")>>,
      <<FirestoreIndex("posts/indexes/ext1", <<FAsc("a"), FAsc(NameField)>>,
                       "COLLECTION", "READY"),
        FirestoreIndex("posts/indexes/ext2", <<FAsc("a"), FAsc(NameField)>>,
                       "COLLECTION", "READY")>>,
      <<FirestoreIndex("posts/indexes/ext1", <<FAsc("a"), FAsc(NameField), FVec("v", 2)>>,
                       "COLLECTION", "READY")>>,
      <<FirestoreIndex("posts/indexes/ext1", <<FAsc("a"), FDesc("b")>>,
                       "COLLECTION", "CREATING")>>,
      <<FirestoreIndex("posts/indexes/ext1", <<FAsc("a"), FDesc("b")>>,
                       "COLLECTION", "READY"),
        FirestoreIndex("posts/indexes/ext2", <<FAsc("b")>>,
                       "COLLECTION", "NEEDS_REPAIR")>>,
      <<FirestoreIndex("posts/indexes/ext1", <<FAsc("a"), FAsc("b")>>,
                       "COLLECTION", "READY"),
        FirestoreIndex("posts/indexes/ext2", <<FAsc("a"), FDesc("b")>>,
                       "COLLECTION", "READY")>> }

\* the remote states Import may find: collection posts exists, users does not
ImportRemotes ==
    {[collections |-> cs,
      indexes |-> [c \in CollectionNames |-> IF c = "posts" THEN l ELSE <<>>],
      ttl |-> [c \in CollectionNames |-> IF c = "posts" THEN t ELSE NoTTL],
      nextId |-> 1] :
        cs \in {{"posts"}}, l \in ImportListings,
        t \in InitialTTL["posts"]}

InitImport ==
    /\ args \in {<<>>, <<"posts">>, <<"users", "posts">>}
    /\ ret = <<>>
    /\ called = ""
    /\ imp \in {NewImport(p) : p \in BOOLEAN}
    /\ adm = AdapterIdle
    /\ config = <<>>
    /\ remote \in ImportRemotes
    /\ sync \in [dryRun : BOOLEAN, async : {FALSE}]
    /\ task = <<>>
    /\ log = <<>>
    /\ groupErr = <<>>
    /\ callerCancelled = FALSE
    /\ faults = 0
    /\ result = "idle"
    /\ run = 0

\* the steps of Import.Execute and of the Execute of Sync that follows it; the
\* policy of an imported TTL field exists, so that syncTTL has no action to
\* apply to it
NextImport ==
    \/ ImportStart
    \/ ImportIndexes
    \/ ImportFindTTL
    \/ ImportGetTTL
    \/ TTLPolicyRemoved
    \/ SyncImported
    \/ \E i \in Tasks : Acquire(i)
    \/ \E i \in Tasks : Validate(i)
    \/ \E i \in Tasks : EnsureCollectionExists(i)
    \/ \E i \in Tasks : EnsureCreateCollection(i)
    \/ \E i \in Tasks : SyncIndexesList(i)
    \/ \E i \in Tasks : SyncIndexesDelete(i)
    \/ \E i \in Tasks : \E k \in DOMAIN task[i].sub : CreateAcquire(i, k)
    \/ \E i \in Tasks : \E k \in DOMAIN task[i].sub : CreateCall(i, k)
    \/ \E i \in Tasks : \E k \in DOMAIN task[i].sub : CreateWaitForOperation(i, k)
    \/ \E i \in Tasks : CreateJoin(i)
    \/ \E i \in Tasks : WaitList(i)
    \/ \E i \in Tasks : WaitSleep(i)
    \/ \E i \in Tasks : SyncTTL(i)
    \/ \E i \in Tasks : WaitForOperation(i)
    \/ ExecuteReturn
    \/ CallerCancel
    \/ /\ result = "running"
       /\ \E coll \in CollectionNames : \E k \in 1..Len(remote.indexes[coll]) :
            IndexProgress(coll, k)
    \/ /\ result = "running"
       /\ \E coll \in CollectionNames : \E f \in SyncTTLFields : TTLProgress(coll, f)

SpecImport == InitImport /\ [][NextImport]_vars

\* every index Import.Execute has read was READY
ImportedFromReady ==
    \A n \in DOMAIN imp.listed : \A x \in DOMAIN imp.listed[n] :
        imp.listed[n][x].State = "READY"

ImportedIndexesOf(n) ==
    IF n > Len(imp.collections) THEN imp.indexes
    ELSE LET c == CHOOSE c \in Range(imp.collections) : c.Name = imp.names[n]
         IN  c.Indexes

\* the imported index m stems from the observed index x: same scope, no field
\* path that x does not have, and every field path of x other than __name__
StemsFrom(m, x) ==
    LET imported == {m.Fields[j].Name : j \in DOMAIN m.Fields}
        observed == {x.Fields[j].FieldPath : j \in DOMAIN x.Fields}
    IN  /\ m.QueryScope = x.QueryScope
        /\ imported \subseteq observed
        /\ observed \ {NameField} \subseteq imported

\* C25: every index Import holds for a collection stems from an observed index
\* of that collection in state READY, and a collection none of whose observed
\* indexes is READY is imported with zero indexes
TheoremC25 ==
    \A n \in DOMAIN imp.listed :
        LET listing == imp.listed[n]
            imported == ImportedIndexesOf(n)
        IN  /\ \A k \in DOMAIN imported : \E x \in DOMAIN listing :
                  listing[x].State = "READY" /\ StemsFrom(imported[k], listing[x])
            /\ (\A x \in DOMAIN listing : listing[x].State # "READY") => imported = <<>>

\* Import returned a collection for which it had read a READY index and one
\* in another state, with the READY index only
WitnessC25 ==
    /\ imp.pc = "done"
    /\ \E n \in DOMAIN imp.listed :
         /\ \E x, y \in DOMAIN imp.listed[n] :
               imp.listed[n][x].State = "READY" /\ imp.listed[n][y].State # "READY"
         /\ Len(ImportedIndexesOf(n)) = 1

\* C26: the indexes Import holds for a collection contain no two structurally
\* identical ones (same scope, same field sequence), and READY indexes of one
\* structure observed under several names are imported as one index
TheoremC26 ==
    \A n \in DOMAIN imp.listed :
        LET listing == imp.listed[n]
            imported == ImportedIndexesOf(n)
            ready == {x \in DOMAIN listing : listing[x].State = "READY"}
        IN  /\ \A j, k \in DOMAIN imported : imported[j] = imported[k] => j = k
            /\ (/\ ready # {}
                /\ \A x, y \in ready :
                      /\ listing[x].QueryScope = listing[y].QueryScope
                      /\ listing[x].Fields = listing[y].Fields)
               => Len(imported) = 1

\* Import returned one index for a collection for which it had read two READY
\* indexes of the same scope and fields under different names
WitnessC26 ==
    /\ imp.pc = "done"
    /\ \E n \in DOMAIN imp.listed :
         /\ \E x, y \in DOMAIN imp.listed[n] :
               /\ x # y
               /\ imp.listed[n][x].Name # imp.listed[n][y].Name
               /\ imp.listed[n][x].State = "READY"
               /\ imp.listed[n][y].State = "READY"
               /\ imp.listed[n][x].Fields = imp.listed[n][y].Fields
               /\ imp.listed[n][x].QueryScope = imp.listed[n][y].QueryScope
         /\ Len(ImportedIndexesOf(n)) = 1

\* the field paths of an observed index without __name__, in its order
PathsWithoutName(x) ==
    LET notName(p) == p # NameField
    IN  SelectSeq([j \in DOMAIN x.Fields |-> x.Fields[j].FieldPath], notName)

\* C27: a READY vector index observed with the field __name__ is imported
\* without it: the imported index has the other fields only, the vector field
\* last
CounterexampleC27 ==
    \A n \in DOMAIN imp.listed : \A x \in DOMAIN imp.listed[n] :
        LET observed == imp.listed[n][x]
            imported == ImportedIndexesOf(n)
        IN  (/\ observed.State = "READY"
             /\ IsVectorIndexFields(observed.Fields)
             /\ \E j \in DOMAIN observed.Fields : observed.Fields[j].FieldPath = NameField)
            => \E k \in DOMAIN imported :
                  /\ [j \in DOMAIN imported[k].Fields |-> imported[k].Fields[j].Name]
                        = PathsWithoutName(observed)
                  /\ imported[k].Fields[Len(imported[k].Fields)].VectorConfig # <<>>

\* C28: a failure to resolve the TTL of a collection does not fail the import:
\* Import.Execute does not return the error of GetTTLPolicy and does not
\* panic when GetTTLPolicy has no policy for the field FindTTLField found
CounterexampleC28 ==
    /\ imp.pc # "panic"
    /\ imp.pc = "failed" => imp.err # "GetTTLPolicy failed"

----------------------------------------------------------------------------
(* Specification SpecPlan: Client.GetMigrationPlan (src/unnamed/part_007)  *)
(* and Diff (fireconf.go), followed by Client.Migrate on the same         *)
(* configuration                                                          *)

\* convertFieldsToInternal (fireconf.go:245-260): order, array config and
\* vector config are all copied
convertFieldsToInternal(fields) ==
    [j \in 1..Len(fields) |->
        FirestoreIndexField(fields[j].Name, fields[j].Order, fields[j].ArrayConfig,
                            fields[j].VectorConfig)]

\* convertIndexesToInternal (fireconf.go:234-243): Name and State stay empty
convertIndexesToInternal(indexes) ==
    [k \in 1..Len(indexes) |->
        FirestoreIndex("", convertFieldsToInternal(indexes[k].Fields),
                       indexes[k].QueryScope, "")]

\* convertFromInternalConfig followed by convertToInternalConfig
\* (src/unnamed/part_010:119-232): every collection, index and field is
\* rebuilt from its name, scope, order, array config, vector config and TTL
convertToInternalConfig(cfg) ==
    [n \in 1..Len(cfg) |->
        Collection(cfg[n].Name,
                   [k \in 1..Len(cfg[n].Indexes) |->
                       Index([j \in 1..Len(cfg[n].Indexes[k].Fields) |->
                                 IndexField(cfg[n].Indexes[k].Fields[j].Name,
                                            cfg[n].Indexes[k].Fields[j].Order,
                                            cfg[n].Indexes[k].Fields[j].ArrayConfig,
                                            cfg[n].Indexes[k].Fields[j].VectorConfig)],
                             cfg[n].Indexes[k].QueryScope)],
                   IF cfg[n].TTL = <<>> THEN <<>> ELSE <<[Field |-> cfg[n].TTL[1].Field]>>)]

\* currentMap and desiredMap of Diff: the last collection of a name
CollectionMap(cfg) ==
    [name \in {cfg[n].Name : n \in DOMAIN cfg} |->
        cfg[CHOOSE n \in DOMAIN cfg :
                /\ cfg[n].Name = name
                /\ \A m \in DOMAIN cfg : cfg[m].Name = name => m <= n]]

\* the TTLAction of Diff (fireconf.go:139-148), "" when the TTL is the same
TTLAction(desiredTTL, currentTTL) ==
    IF (desiredTTL = <<>>) # (currentTTL = <<>>)
       \/ (desiredTTL # <<>> /\ currentTTL # <<>>
           /\ desiredTTL[1].Field # currentTTL[1].Field)
    THEN IF desiredTTL = <<>> THEN "DELETE"
         ELSE IF currentTTL = <<>> THEN "ADD"
         ELSE "MODIFY"
    ELSE ""

Step_(coll, operation) == [Collection |-> coll, Operation |-> operation]

\* the steps GetMigrationPlan makes of the CollectionDiff of a desired
\* collection (fireconf.go:113-155, part_007:115-158)
StepsOfDesired(desiredCol, currentMap, iter) ==
    IF desiredCol.Name \notin DOMAIN currentMap
    THEN <<Step_(desiredCol.Name, "CREATE_COLLECTION")>>
    ELSE LET currentCol == currentMap[desiredCol.Name]
             d == DiffIndexes(desiredCol.Indexes,
                              convertIndexesToInternal(currentCol.Indexes), iter)
             action == TTLAction(desiredCol.TTL, currentCol.TTL)
         IN  [k \in 1..Len(d.toCreate) |-> Step_(desiredCol.Name, "CREATE_INDEX")]
             \o [k \in 1..Len(d.toDelete) |-> Step_(desiredCol.Name, "DELETE_INDEX")]
             \o (IF action = "ADD" THEN <<Step_(desiredCol.Name, "ENABLE_TTL")>>
                 ELSE IF action = "DELETE" THEN <<Step_(desiredCol.Name, "DISABLE_TTL")>>
                 ELSE <<>>)

RECURSIVE PlanOfDesired(_, _, _)
\* the loop `for name, desiredCol := range desiredMap` of Diff, visiting the
\* names in the order names
PlanOfDesired(names, desiredMap, currentMap) ==
    IF Len(names) = 0 THEN <<>>
    ELSE LET col == desiredMap[names[1]]
             iter == CHOOSE it \in DesiredMapIterations(col.Indexes) : TRUE
         IN  StepsOfDesired(col, currentMap, iter)
             \o PlanOfDesired(Tail(names), desiredMap, currentMap)

\* the steps of GetMigrationPlan for the imported configuration current and
\* the configuration desired; the maps of Diff are visited in the orders given
GetMigrationPlan(current, desired, desiredNames, currentNames) ==
    LET currentMap == CollectionMap(convertToInternalConfig(current))
        desiredMap == CollectionMap(convertToInternalConfig(desired))
        gone(name) == name \notin DOMAIN desiredMap
        deleted == SelectSeq(currentNames, gone)
    IN  PlanOfDesired(desiredNames, desiredMap, currentMap)
        \o [k \in 1..Len(deleted) |-> Step_(deleted[k], "DELETE_COLLECTION")]

\* GetMigrationPlan returns: Import has returned the current configuration
PlanReturn ==
    /\ imp.pc \in {"done", "failed"}
    /\ called = ""
    /\ called' = "GetMigrationPlan"
    /\ IF imp.pc = "failed" THEN ret' = [err |-> imp.err, steps |-> <<>>]
       ELSE \E desiredNames \in MapIterations({config[n].Name : n \in DOMAIN config}) :
            \E currentNames \in MapIterations({imp.collections[n].Name :
                                                  n \in DOMAIN imp.collections}) :
               ret' = [err |-> "",
                       steps |-> GetMigrationPlan(imp.collections, config,
                                                  desiredNames, currentNames)]
    /\ UNCHANGED <<args, imp, adm, syncVars>>

\* the caller runs Migrate with the configuration of the plan: Execute starts
\* one goroutine per collection
MigrateStart ==
    /\ called = "GetMigrationPlan"
    /\ ret.err = ""
    /\ result = "idle"
    /\ result' = "running"
    /\ UNCHANGED <<config, sync, remote, task, log, groupErr, callerCancelled, faults,
                   run, pureVars>>

PlanConfigs == {<<Users1>>, <<Posts1>>, <<Posts2>>}

InitPlan ==
    /\ args = <<>>
    /\ ret = <<>>
    /\ called = ""
    /\ imp \in {NewImport(p) : p \in BOOLEAN}
    /\ adm = AdapterIdle
    /\ config \in PlanConfigs
    /\ remote \in InitialRemotes(<<Users1, Posts2>>)
    /\ sync = [dryRun |-> FALSE, async |-> TRUE]
    /\ task = [i \in DOMAIN config |-> NewTask]
    /\ log = <<[i \in DOMAIN config |-> <<>>]>>
    /\ groupErr = <<>>
    /\ callerCancelled = FALSE
    /\ faults = 0
    /\ result = "idle"
    /\ run = 1

\* Migrate runs with async set, so that no step of Sync waits for an operation
NextPlan ==
    \/ ImportStart
    \/ ImportIndexes
    \/ ImportFindTTL
    \/ ImportGetTTL
    \/ PlanReturn
    \/ MigrateStart
    \/ \E i \in Tasks : Acquire(i)
    \/ \E i \in Tasks : Validate(i)
    \/ \E i \in Tasks : EnsureCollectionExists(i)
    \/ \E i \in Tasks : EnsureCreateCollection(i)
    \/ \E i \in Tasks : SyncIndexesList(i)
    \/ \E i \in Tasks : SyncIndexesDelete(i)
    \/ \E i \in Tasks : \E k \in DOMAIN task[i].sub : CreateAcquire(i, k)
    \/ \E i \in Tasks : \E k \in DOMAIN task[i].sub : CreateCall(i, k)
    \/ \E i \in Tasks : CreateJoin(i)
    \/ \E i \in Tasks : SyncTTL(i)
    \/ \E i \in Tasks : SyncTTLApply(i)
    \/ ExecuteReturn

SpecPlan == InitPlan /\ [][NextPlan]_vars

\* the steps of the returned plan for collection coll with operation op
PlanSteps(coll, op) ==
    {k \in DOMAIN ret.steps : ret.steps[k].Collection = coll /\ ret.steps[k].Operation = op}

\* the calls named call that Migrate issued for the collection of task i
MigrateCalls(i, call) == {e \in DOMAIN log[run][i] : log[run][i][e].call = call}

\* Migrate has returned success after the plan, and no remote call failed
MigratedAfterPlan == called = "GetMigrationPlan" /\ result = "ok" /\ faults = 0

\* the plan has as many steps of operation op as Migrate issued calls named call
SameActions(op, call) ==
    \A i \in Tasks :
        Cardinality(PlanSteps(config[i].Name, op)) = Cardinality(MigrateCalls(i, call))

\* C29: for the same configuration and remote state, the plan of
\* GetMigrationPlan has one step for every index creation, index deletion,
\* TTL enable and TTL disable that Migrate issues, and no other step
CounterexampleC29 ==
    MigratedAfterPlan =>
        /\ SameActions("CREATE_INDEX", "CreateIndex")
        /\ SameActions("DELETE_INDEX", "DeleteIndex")
        /\ SameActions("ENABLE_TTL", "EnableTTLPolicy")
        /\ SameActions("DISABLE_TTL", "DisableTTLPolicy")
        /\ \A k \in DOMAIN ret.steps :
              ret.steps[k].Operation \in {"CREATE_INDEX", "DELETE_INDEX", "ENABLE_TTL",
                                          "DISABLE_TTL"}

----------------------------------------------------------------------------
(* Specification SpecApplied: Execute while another party applies the same *)
(* changes to the project                                                  *)

\* another party creates the index a sub-goroutine of task i is about to create
CreatedElsewhere(i, k) ==
    /\ Running(i)
    /\ ~sync.dryRun
    /\ task[i].pc = "create"
    /\ k \in DOMAIN task[i].sub
    /\ task[i].sub[k] = "acquired"
    /\ ~AlreadyExists(remote, config[i].Name, task[i].toCreate[k])
    /\ \E form \in StoredForms(task[i].toCreate[k]) :
         remote' = CreateIndex(remote, config[i].Name, task[i].toCreate[k], form)
    /\ UNCHANGED <<config, sync, task, log, groupErr, callerCancelled, faults, result, run,
                   pureVars>>

\* another party deletes the index task i is about to delete
DeletedElsewhere(i) ==
    /\ Running(i)
    /\ ~sync.dryRun
    /\ task[i].pc = "delete"
    /\ DeleteIndexStatus(remote, Head(task[i].toDelete).Name) = "OK"
    /\ remote' = DeleteIndex(remote, Head(task[i].toDelete).Name)
    /\ UNCHANGED <<config, sync, task, log, groupErr, callerCancelled, faults, result, run,
                   pureVars>>

NextApplied ==
    \/ Next
    \/ \E i \in Tasks : \E k \in DOMAIN task[i].sub : CreatedElsewhere(i, k)
    \/ \E i \in Tasks : DeletedElsewhere(i)

SpecApplied == Init /\ [][NextApplied]_vars

\* the calls task i logs in this step
NewCalls(i) ==
    IF Len(log'[run][i]) > Len(log[run][i])
    THEN {log'[run][i][e] : e \in (Len(log[run][i]) + 1)..Len(log'[run][i])}
    ELSE {}

\* task i has got the answer to a mutating call on an already applied state
Tolerated(i) ==
    \E e \in NewCalls(i) :
        /\ e.ok
        /\ \/ e.call = "CreateIndex" /\ e.res = <<"">>
           \/ e.call = "DeleteIndex" /\ e.res = <<"NotFound">>

\* no error of task i reaches the errgroups in this step
NoErrorReachesSync(i) ==
    /\ task'[i].pc # "failed"
    /\ task'[i].innerErr = task[i].innerErr
    /\ \A k \in DOMAIN task'[i].sub : task'[i].sub[k] = "failed" => task[i].sub[k] = "failed"
    /\ groupErr' = groupErr

\* C30: a CreateIndex call on an index that already exists returns an empty
\* identity and no error, a DeleteIndex call on an index that no longer
\* exists returns no error; neither changes the remote state, no error
\* reaches Sync, and the task goes on
TheoremC30 ==
    [][\A i \in Tasks :
          Tolerated(i) => /\ remote' = remote
                          /\ NoErrorReachesSync(i)
                          /\ task'[i] # task[i]]_vars

\* task i has called CreateIndex for an index another party had created, or
\* DeleteIndex for an index another party had deleted, and has finished
\* without error
ToleratedBy(i, call, res) ==
    /\ task[i].pc = "done"
    /\ \E e \in DOMAIN log[run][i] :
          /\ log[run][i][e].call = call
          /\ log[run][i][e].ok
          /\ log[run][i][e].res = res

WitnessC30 ==
    /\ result = "ok"
    /\ \E i \in Tasks : ToleratedBy(i, "CreateIndex", <<"">>)
    /\ \E i \in Tasks : ToleratedBy(i, "DeleteIndex", <<"NotFound">>)

----------------------------------------------------------------------------
(* Specification SpecEnable: Client.EnableTTLPolicy of the adapter          *)
(* (src/unnamed/part_005), one call with the field it updates               *)
(*                                                                          *)
(* adm = [pc, coll, field, ctxDone,                                         *)
(*        calls   : the admin.UpdateField requests issued, by update mask,  *)
(*        op      : the index_config operation: "", "running", "done",      *)
(*                  "failed",                                               *)
(*        indexed : the field has single-field indexes,                     *)
(*        ttl     : the TTL state of the field, "" for none,                *)
(*        err     : the error returned, "" for nil]                         *)

NewEnableTTLPolicy(coll, field, indexed, ttl) ==
    [pc |-> "disableIndex", coll |-> coll, field |-> field, ctxDone |-> FALSE,
     calls |-> <<>>, op |-> "", indexed |-> indexed, ttl |-> ttl, err |-> ""]

\* EnableTTLPolicy returns err
EnableReturned(a, err) == [a EXCEPT !.pc = "returned", !.err = err]

\* EnableTTLPolicy that ignores the error of disableIndexOnTTLField
AfterDisableIgnoringError(a, err) == [a EXCEPT !.pc = "enableTTL"]

\* EnableTTLPolicy, part_005:52-55: the error of disableIndexOnTTLField ends
\* the call
AfterDisable(a, err) ==
    IF err # "" THEN EnableReturned(a, "failed to disable index on TTL field: " \o err)
    ELSE [a EXCEPT !.pc = "enableTTL"]

\* how a call of the admin service may end
AdminOutcomes == {"ok", "fault"}

\* disableIndexOnTTLField, part_005:115-131: admin.UpdateField with the update
\* mask index_config
DisableIndexUpdateField ==
    /\ adm.pc = "disableIndex"
    /\ \E o \in AdminOutcomes :
         LET sent == [adm EXCEPT !.calls = Append(@, [mask |-> "index_config",
                                                      ok |-> o = "ok"])]
         IN  adm' = IF o = "ok" THEN [sent EXCEPT !.pc = "wait", !.op = "running"]
                    ELSE AfterDisable(sent, "failed to update field index config")
    /\ UNCHANGED <<args, ret, called, imp, syncVars>>

\* the service finishes the index_config operation, or gives up on it
IndexConfigProgress ==
    /\ adm.pc # "idle"
    /\ adm.op = "running"
    /\ \/ adm' = [adm EXCEPT !.op = "done", !.indexed = FALSE]
       \/ adm' = [adm EXCEPT !.op = "failed"]
    /\ UNCHANGED <<args, ret, called, imp, syncVars>>

\* disableIndexOnTTLField, part_005:133-139: op.Wait returns
DisableIndexWait ==
    /\ adm.pc = "wait"
    /\ \/ /\ adm.op = "done"
          /\ adm' = AfterDisable(adm, "")
       \/ /\ adm.op = "failed" \/ adm.ctxDone
          /\ adm' = AfterDisable(adm, "field index update failed")
    /\ UNCHANGED <<args, ret, called, imp, syncVars>>

\* EnableTTLPolicy, part_005:57-75: admin.UpdateField with the update mask
\* ttl_config
EnableUpdateField ==
    /\ adm.pc = "enableTTL"
    /\ \E o \in AdminOutcomes :
         LET sent == [adm EXCEPT !.calls = Append(@, [mask |-> "ttl_config",
                                                      ok |-> o = "ok"])]
         IN  adm' = IF o = "ok" THEN EnableReturned([sent EXCEPT !.ttl = "CREATING"], "")
                    ELSE EnableReturned(sent, "failed to enable TTL policy")
    /\ UNCHANGED <<args, ret, called, imp, syncVars>>

\* the context of the call is cancelled
EnableContextDone ==
    /\ adm.pc \notin {"idle", "returned"}
    /\ ~adm.ctxDone
    /\ adm' = [adm EXCEPT !.ctxDone = TRUE]
    /\ UNCHANGED <<args, ret, called, imp, syncVars>>

\* the TTL states a field may have when EnableTTLPolicy is called
EnableTTLStates == {"", "NEEDS_REPAIR"}

InitEnable ==
    /\ args = <<>>
    /\ ret = <<>>
    /\ called = ""
    /\ imp = ImportIdle
    /\ adm \in {NewEnableTTLPolicy(coll, field, indexed, ttl) :
                   coll \in CollectionNames, field \in SyncTTLFields,
                   indexed \in BOOLEAN, ttl \in EnableTTLStates}
    /\ config = <<>>
    /\ sync = [dryRun |-> FALSE, async |-> FALSE]
    /\ remote = <<>>
    /\ task = <<>>
    /\ log = <<>>
    /\ groupErr = <<>>
    /\ callerCancelled = FALSE
    /\ faults = 0
    /\ result = "idle"
    /\ run = 0

NextEnable ==
    \/ DisableIndexUpdateField
    \/ IndexConfigProgress
    \/ DisableIndexWait
    \/ EnableUpdateField
    \/ EnableContextDone

SpecEnable == InitEnable /\ [][NextEnable]_vars

\* the requests issued with update mask m
UpdateFieldCalls(m) == {k \in DOMAIN adm.calls : adm.calls[k].mask = m}

\* disabling the single-field indexes has failed: the request or its operation
DisableFailed ==
    \/ \E k \in UpdateFieldCalls("index_config") : ~adm.calls[k].ok
    \/ adm.pc \in {"enableTTL", "returned"} /\ adm.op # "done"

\* C31: EnableTTLPolicy issues the ttl_config update only after an
\* index_config update that was accepted and whose operation has completed,
\* so that the field has no single-field index by then; when disabling the
\* index fails, no ttl_config update is issued, the TTL state of the field is
\* not set to CREATING by the call, and an error is returned
TheoremC31 ==
    /\ adm.pc # "idle"
    /\ UpdateFieldCalls("ttl_config") # {} =>
          /\ \E k \in UpdateFieldCalls("index_config") :
                /\ adm.calls[k].ok
                /\ \A j \in UpdateFieldCalls("ttl_config") : k < j
          /\ adm.op = "done"
          /\ ~adm.indexed
    /\ DisableFailed =>
          /\ UpdateFieldCalls("ttl_config") = {}
          /\ adm.ttl # "CREATING"
          /\ adm.pc = "returned" => adm.err # ""

\* the operation of the index update failed and the call returned its error
DisableFailedAndReturned ==
    /\ adm.pc = "returned"
    /\ adm.op = "failed"
    /\ adm.err = "failed to disable index on TTL field: field index update failed"
    /\ Len(adm.calls) = 1

\* a call that has enabled the TTL of a field that had single-field indexes,
\* after the index update completed
WitnessC31 ==
    /\ adm.pc = "returned"
    /\ adm.err = ""
    /\ adm.ttl = "CREATING"
    /\ ~adm.indexed
    /\ Len(adm.calls) = 2

----------------------------------------------------------------------------
(* The first listing of the convergence wait *)

\* the position in the log of task i of the first listing of its wait loop
FirstWaitListing(i) ==
    CHOOSE p \in WaitObservations(run, i) : \A q \in WaitObservations(run, i) : p <= q

\* the first listing of the wait loop of task i shows every desired index READY
ReadyAtFirstListing(i) ==
    /\ WaitObservations(run, i) # {}
    /\ ReadyInListing(config[i], log[run][i][FirstWaitListing(i)].res)
         = DOMAIN config[i].Indexes

\* C32: when the first listing of the convergence wait shows every desired
\* index of the collection READY, the wait ends with that listing: the task
\* does not sleep, makes no further listing and issues no CreateIndex call
\* from then on, and the wait does not fail
CounterexampleC32 ==
    \A i \in Tasks :
        ReadyAtFirstListing(i) =>
            /\ task[i].pc \notin {"waitSleep", "waitList"}
            /\ \A p \in DOMAIN log[run][i] :
                  p > FirstWaitListing(i) =>
                      log[run][i][p].call \notin {"Sleep", "ListIndexes", "CreateIndex"}

----------------------------------------------------------------------------
(* Specification SpecWait: Execute with a long convergence wait in which   *)
(* any listing may fail                                                    *)

MaxWaitPolls == 6

\* one listing of the polling loop; the ListIndexes call may fail at every
\* round
WaitListUnderFailures(i) ==
    /\ Running(i)
    /\ task[i].pc = "waitList"
    /\ task[i].polls < MaxWaitPolls
    /\ \E o \in {"ok", "fault"} \cup (IF CtxDone THEN {"ctx"} ELSE {}) :
         WaitListOutcome(i, o)

InitWait ==
    /\ args = <<>>
    /\ ret = <<>>
    /\ called = ""
    /\ imp = ImportIdle
    /\ adm = AdapterIdle
    /\ config = <<Users1>>
    /\ remote \in {r \in InitialRemotes(config) : r.collections = {"users"}}
    /\ sync = [dryRun |-> FALSE, async |-> FALSE]
    /\ task = [i \in DOMAIN config |-> NewTask]
    /\ log = <<[i \in DOMAIN config |-> <<>>]>>
    /\ groupErr = <<>>
    /\ callerCancelled = FALSE
    /\ faults = 0
    /\ result = "running"
    /\ run = 1

NextWait ==
    \/ \E i \in Tasks : Acquire(i)
    \/ \E i \in Tasks : Validate(i)
    \/ \E i \in Tasks : EnsureCollectionExists(i)
    \/ \E i \in Tasks : SyncIndexesList(i)
    \/ \E i \in Tasks : SyncIndexesDelete(i)
    \/ \E i \in Tasks : \E k \in DOMAIN task[i].sub : CreateAcquire(i, k)
    \/ \E i \in Tasks : \E k \in DOMAIN task[i].sub : CreateCall(i, k)
    \/ \E i \in Tasks : \E k \in DOMAIN task[i].sub : CreateWaitForOperation(i, k)
    \/ \E i \in Tasks : CreateJoin(i)
    \/ \E i \in Tasks : WaitListUnderFailures(i)
    \/ \E i \in Tasks : WaitSleep(i)
    \/ \E i \in Tasks : SyncTTL(i)
    \/ \E i \in Tasks : WaitForOperation(i)
    \/ ExecuteReturn
    \/ CallerCancel
    \/ /\ result = "running"
       /\ \E coll \in CollectionNames : \E k \in 1..Len(remote.indexes[coll]) :
            IndexProgress(coll, k)

SpecWait == InitWait /\ [][NextWait]_vars

\* the positions in the log of task i of the listings of its wait loop that
\* failed
FailedWaitListings(i) ==
    {p \in DOMAIN log[run][i] : log[run][i][p].at = "waitList" /\ ~log[run][i][p].ok}

\* C33: a ListIndexes call of the convergence wait that fails does not end the
\* wait while the context is live: the task goes to its backoff sleep and
\* lists again, however many listings have failed before; the task fails
\* after such a listing only with the context's error, and the error of the
\* listing is never the error of the task or of Execute
TheoremC33 ==
    \A i \in Tasks : \A p \in FailedWaitListings(i) :
        /\ p < Len(log[run][i]) =>
              /\ log[run][i][p + 1].call = "Sleep"
              /\ p + 1 < Len(log[run][i]) => log[run][i][p + 2].at = "waitList"
        /\ p = Len(log[run][i]) =>
              \/ task[i].pc = "waitSleep"
              \/ /\ task[i].pc = "failed"
                 /\ task[i].err = <<ErrContext>>
                 /\ CtxDone
        /\ p = Len(log[run][i]) /\ result # "running" => groupErr = <<ErrContext>>

\* two listings of the wait in a row have failed, the third one has ended the
\* wait, and Execute has returned success
WitnessC33 ==
    /\ result = "ok"
    /\ \E i \in Tasks : \E p \in FailedWaitListings(i) :
          /\ p + 2 \in FailedWaitListings(i)
          /\ p + 4 \in WaitObservations(run, i)

\* the positions in the log of task i of its backoff sleeps
Sleeps(i) == {p \in DOMAIN log[run][i] : log[run][i][p].call = "Sleep"}

\* the number of the sleep at position p among the sleeps of task i
SleepNumber(i, p) == Cardinality({q \in Sleeps(i) : q <= p})

\* C34: the k-th backoff sleep of the convergence wait lasts
\* min(2^(k-1), 10) seconds, whether the listings before it failed or not: the
\* delay starts at 1, doubles after each round and stays at 10 once reached
TheoremC34 ==
    \A i \in Tasks : \A p \in Sleeps(i) :
        LET k == SleepNumber(i, p)
        IN  log[run][i][p].arg = IF k <= 4 THEN 2 ^ (k - 1) ELSE 10

\* a wait that has slept six times, the sixth sleep at the cap for the second
\* time, with a failed listing among its rounds
WitnessC34 ==
    \E i \in Tasks :
        /\ Cardinality(Sleeps(i)) = 6
        /\ FailedWaitListings(i) # {}
        /\ \E p \in Sleeps(i) : SleepNumber(i, p) = 6 /\ log[run][i][p].arg = 10

----------------------------------------------------------------------------
(* Mutating calls that fail *)

MutatingCalls == {"DeleteIndex", "CreateIndex", "EnableTTLPolicy", "DisableTTLPolicy"}

\* the positions in the log of task i of its mutating calls
Mutations(i) == {p \in DOMAIN log[run][i] : log[run][i][p].call \in MutatingCalls}

\* the positions of the mutating calls of task i that returned an error
FailedMutations(i) == {p \in Mutations(i) : ~log[run][i][p].ok}

\* the positions of the calls of task i that returned an error
FailedCalls(i) == {p \in DOMAIN log[run][i] : ~log[run][i][p].ok}

\* no mutating call is issued twice with the same argument, and no CreateIndex
\* call follows a failed DeleteIndex call
AttemptedOnce(i) ==
    /\ \A p, q \in Mutations(i) :
          (/\ log[run][i][p].call = log[run][i][q].call
           /\ log[run][i][p].arg = log[run][i][q].arg) => p = q
    /\ \A p \in FailedMutations(i) :
          log[run][i][p].call = "DeleteIndex" =>
              \A q \in Mutations(i) : log[run][i][q].call # "CreateIndex"

\* C35 as stated: no mutating call is attempted twice, and when one has
\* failed, Execute returns that failure
CounterexampleC35 ==
    \A i \in Tasks :
        /\ AttemptedOnce(i)
        /\ \A p \in FailedMutations(i) :
              result # "running" =>
                  /\ result = "error"
                  /\ groupErr \in {<<ErrRemote(log[run][i][p].call)>>, <<ErrContext>>}

\* C35: within one Execute no DeleteIndex, CreateIndex, EnableTTLPolicy or
\* DisableTTLPolicy call is issued twice with the same argument, so that a
\* call that failed is not retried; no CreateIndex call is issued for a
\* collection after a DeleteIndex call for it has failed; the task of a
\* failed call fails, and Execute returns an error: the error of the first
\* failure, which is the error of that call when no other task has failed
\* and no other call of the task has returned an error
TheoremC35 ==
    \A i \in Tasks :
        /\ AttemptedOnce(i)
        /\ \A p \in FailedMutations(i) :
              result # "running" =>
                  /\ result = "error"
                  /\ task[i].pc = "failed"
                  /\ \E j \in FailedTasks : groupErr = task[j].err
                  /\ (FailedTasks = {i} /\ FailedCalls(i) = {p}) =>
                        groupErr \in {<<ErrRemote(log[run][i][p].call)>>, <<ErrContext>>}

\* Execute has returned the error of a DeleteIndex call that failed, for a
\* collection with an index to create for which no CreateIndex was issued
WitnessC35 ==
    /\ result = "error"
    /\ groupErr = <<ErrRemote("DeleteIndex")>>
    /\ \E i \in Tasks :
          /\ task[i].toCreate # <<>>
          /\ \E p \in FailedMutations(i) :
                /\ p = Len(log[run][i])
                /\ log[run][i][p].call = "DeleteIndex"

----------------------------------------------------------------------------
(* Specification SpecReflexive: the public Diff (fireconf.go) of a         *)
(* configuration with itself                                               *)

\* the CollectionDiff of a collection present on both sides
\* (fireconf.go:125-148); the indexes to add are in the order of one visit of
\* desiredMap
CollectionDiff(desiredCol, currentCol) ==
    LET iter == CHOOSE it \in DesiredMapIterations(desiredCol.Indexes) : TRUE
        d == DiffIndexes(desiredCol.Indexes,
                         convertIndexesToInternal(currentCol.Indexes), iter)
    IN  [Name |-> desiredCol.Name, Action |-> "MODIFY",
         IndexesToAdd |-> d.toCreate, IndexesToDelete |-> d.toDelete,
         TTLAction |-> TTLAction(desiredCol.TTL, currentCol.TTL)]

\* Diff: the set of the entries of result.Collections, whose order is the
\* order of two map visits
Diff(current, desired) ==
    LET currentMap == CollectionMap(convertToInternalConfig(current))
        desiredMap == CollectionMap(convertToInternalConfig(desired))
        modified == {CollectionDiff(desiredMap[n], currentMap[n]) :
                        n \in DOMAIN desiredMap \cap DOMAIN currentMap}
    IN  {[Name |-> n, Action |-> "ADD", IndexesToAdd |-> <<>>, IndexesToDelete |-> <<>>,
          TTLAction |-> ""] : n \in DOMAIN desiredMap \ DOMAIN currentMap}
        \cup {m \in modified : \/ Len(m.IndexesToAdd) > 0
                                \/ Len(m.IndexesToDelete) > 0
                                \/ m.TTLAction # ""}
        \cup {[Name |-> n, Action |-> "DELETE", IndexesToAdd |-> <<>>,
               IndexesToDelete |-> <<>>, TTLAction |-> ""] :
                 n \in DOMAIN currentMap \ DOMAIN desiredMap}

\* the fields of the configurations Diff is applied to, among them a vector
\* field that also carries an order
ReflexiveFields ==
    {Asc("a"), Desc("b"), IndexField("a", "", "CONTAINS", <<>>), Vec("v", 2),
     IndexField("v", "ASCENDING", "", <<2>>)}

\* configurations of one collection with one index of two fields, the scope
\* omitted or given, with or without TTL, that pass Collection.Validate
ReflexiveConfigs ==
    {cfg \in {<<Collection("users", <<Index(<<f, g>>, scope)>>, ttl)>> :
                 f \in ReflexiveFields, g \in ReflexiveFields,
                 scope \in {"", "COLLECTION", "COLLECTION_GROUP"},
                 ttl \in {<<>>, <<[Field |-> "expireAt"]>>}} :
        CollectionValidate(cfg[1]) = ""}

InitReflexive ==
    /\ SyncIdle
    /\ args \in ReflexiveConfigs
    /\ ret = <<>>
    /\ called = ""

CallDiff ==
    /\ called = ""
    /\ ret' = Diff(args, args)
    /\ called' = "Diff"
    /\ UNCHANGED <<args, imp, adm, syncVars>>

NextReflexive == CallDiff

SpecReflexive == InitReflexive /\ [][NextReflexive]_vars

\* C36: Diff of a valid configuration with itself reports no collection
\* difference
CounterexampleC36 == called = "Diff" => ret = {}

----------------------------------------------------------------------------
(* Specification SpecSameName: Execute on a configuration that names one   *)
(* collection twice                                                        *)

\* a second entry for collection users, with a TTL and without indexes
UsersAgain == Collection("users", <<>>, <<[Field |-> "expireAt"]>>)

InitSameName ==
    /\ args = <<>>
    /\ ret = <<>>
    /\ called = ""
    /\ imp = ImportIdle
    /\ adm = AdapterIdle
    /\ config = <<Users1, UsersAgain>>
    /\ remote \in {r \in InitialRemotes(config) :
                      r.indexes["users"] = <<>> /\ r.ttl["users"] = NoTTL}
    /\ sync \in [dryRun : {FALSE}, async : BOOLEAN]
    /\ task = [i \in DOMAIN config |-> NewTask]
    /\ log = <<[i \in DOMAIN config |-> <<>>]>>
    /\ groupErr = <<>>
    /\ callerCancelled = FALSE
    /\ faults = 0
    /\ result = "running"
    /\ run = 1

SpecSameName == InitSameName /\ [][Next]_vars

\* every collection of the configuration passes Collection.Validate
PassesValidation == \A i \in Tasks : CollectionValidate(config[i]) = ""

\* C37: under a configuration that passes validation, no two tasks of one
\* Execute issue create, delete or TTL calls for the same collection name
CounterexampleC37 ==
    PassesValidation =>
        \A i, j \in Tasks :
            (i # j /\ config[i].Name = config[j].Name) =>
                ~(Mutations(i) # {} /\ Mutations(j) # {})

----------------------------------------------------------------------------
(* The semaphores of Execute and of createIndexesConcurrently, under        *)
(* SpecSem: every call returns, and each goroutine releases its slot when   *)
(* it returns                                                               *)

\* the steps a dry run of task i has still to take: the statements before it
\* ends, and two steps (acquire, create) for every index it may have to create
RemainingSteps(i) ==
    LET t == task[i]
        pcSteps == CASE t.pc = "queued" -> 6
                     [] t.pc = "validate" -> 5
                     [] t.pc = "ensure" -> 4
                     [] t.pc = "list" -> 3
                     [] t.pc = "create" -> 2
                     [] t.pc = "ttl" -> 1
                     [] OTHER -> 0
        subSteps(k) == CASE t.sub[k] = "queued" -> 2
                         [] t.sub[k] = "acquired" -> 1
                         [] OTHER -> 0
        RECURSIVE sumSubs(_)
        sumSubs(k) == IF k = 0 THEN 0 ELSE subSteps(k) + sumSubs(k - 1)
    IN  pcSteps +
        (CASE t.pc \in {"queued", "validate", "ensure", "list"} -> 2 * Len(config[i].Indexes)
           [] t.pc = "create" -> sumSubs(Len(t.sub))
           [] OTHER -> 0)

RECURSIVE RemainingOfTasks(_)
RemainingOfTasks(n) == IF n = 0 THEN 0 ELSE RemainingSteps(n) + RemainingOfTasks(n - 1)

\* the steps Execute has still to take; its return is the last one
Remaining == RemainingOfTasks(Len(config)) + (IF result = "running" THEN 1 ELSE 0)

\* the goroutine of task i, or one of its sub-goroutines, is not blocked
Runnable(i) ==
    LET t == task[i]
    IN  \/ t.pc = "queued" /\ Cardinality(Holding) < CollectionSemaphore
        \/ t.pc \in {"validate", "ensure", "list", "ttl"}
        \/ /\ t.pc = "create"
           /\ \/ \E k \in DOMAIN t.sub : t.sub[k] = "acquired"
              \/ \E k \in DOMAIN t.sub :
                   t.sub[k] = "queued" /\ Cardinality(SubHolding(i)) < IndexSemaphore
              \/ \A k \in DOMAIN t.sub : t.sub[k] \in {"done", "failed"}

Ended(i) == task[i].pc \in {"done", "failed"}

\* a task that has not ended can take a step, or waits for a slot that a
\* task able to take a step holds; when all have ended Execute can return
NoTaskStarved ==
    result = "running" =>
        \A i \in Tasks :
            \/ Ended(i)
            \/ Runnable(i)
            \/ task[i].pc = "queued" /\ \E j \in Holding : Runnable(j)

\* a goroutine that has returned holds no slot, and Execute returns only
\* after every task has ended
SlotsReleased ==
    /\ \A i \in Tasks : Ended(i) => i \notin Holding /\ SubHolding(i) = {}
    /\ \A i \in Tasks : task[i].pc # "create" => SubHolding(i) = {}
    /\ Cardinality(Holding) <= CollectionSemaphore
    /\ \A i \in Tasks : Cardinality(SubHolding(i)) <= IndexSemaphore
    /\ result # "running" => \A i \in Tasks : Ended(i)

----------------------------------------------------------------------------
(* The order of what Import returns *)

\* the orders in which the remote may list the indexes of a listing
ListingOrders(existing) ==
    {[k \in DOMAIN existing |-> existing[p[k]]] : p \in MapIterations(DOMAIN existing)}

\* importIndexes has just returned for the collection it is at
IndexesImported == imp.pc = "findTTL" /\ Len(imp.listed) = imp.at

\* C39: Import is deterministic: the order of the indexes it returns for a
\* collection is the one every run of importIndexes returns for the same
\* indexes, in whatever order the remote lists them, also when indexes have
\* the same field names and differ in direction or scope
CounterexampleC39 ==
    IndexesImported =>
        \A l \in ListingOrders(imp.listed[imp.at]) :
            importIndexes(l, imp.perIteration) = {imp.indexes}

\* the READY indexes of the listing differ from one another in a field name or
\* in the number of fields
NoTie(existing) ==
    \A j, k \in DOMAIN existing :
        (j # k /\ existing[j].State = "READY" /\ existing[k].State = "READY")
            => \/ Len(existing[j].Fields) # Len(existing[k].Fields)
               \/ \E f \in DOMAIN existing[j].Fields :
                     existing[j].Fields[f].FieldPath # existing[k].Fields[f].FieldPath

DeterminedWithoutTie ==
    (IndexesImported /\ NoTie(imp.listed[imp.at])) =>
        \A l \in ListingOrders(imp.listed[imp.at]) :
            importIndexes(l, imp.perIteration) = {imp.indexes}

============================================================================
